---- MODULE Spec2Model ----
(***************************************************************************)
(* The forkable, checkpointable world-state manager of the AVM simulator   *)
(* (AvmPersistableStateManager).  A transaction owns a tree of state       *)
(* managers; manager 1 is the root, every other one was created by fork(). *)
(* The persistent accessor (indexed trees, checkpoints), the Value Cache   *)
(* (PublicStorage), the Append Set Cache (NullifierManager) and the        *)
(* side-effect trace are collaborators whose code is outside the sources:  *)
(* they are modelled from the specification, sections 4.1, 4.2, 4.4, 6.    *)
(***************************************************************************)
EXTENDS Integers, Sequences, FiniteSets, TLC

\* ------------------------------------------------------------- bounds
\* calls made on the state managers of one transaction: storage and nullifier calls
\* across forks, calls that write the persistent trees, calls in any order, nullifiers
\* written to an empty tree
MaxCalls == 6
MaxTreeCalls == 5
MaxAnyOrderCalls == 5
MaxScenarioCalls == 4
MaxMixedCalls == 4
MaxCheckCalls == 4
MaxContractCalls == 4
MaxOutboundCalls == 4
MaxHintCalls == 3
MaxSlotCalls == 4
MaxNoteHashCalls == 5
MaxPrivateCalls == 3
MaxPeekCalls == 4

\* ------------------------------------------------------------- inputs
AztecAddresses == {1}
StorageSlots == {1, 2}
StorageValues == {42, 99}
RawNullifiers == {1, 2}
FirstNullifiers == {5}
UniqueNoteHashes == {77}
NoteHashes == {0, 77}
MessageHashes == {0, 55}
LeafIndices == {0, 1}
L1Recipients == {9}
MessageContents == {1, 2}
PublicLogs == {<<1>>, <<1, 2>>}
DeployerContractAddress == 2
FeeJuiceAddress == 5
CanonicalAddresses == {DeployerContractAddress, FeeJuiceAddress}
ContractAddresses == {2, 3, 4, 5}
ScenarioNullifiers == {7, 3, 10}
AppendedNoteHashes == {77, 78}
PrivateNullifiers == {0, 3, 7, 10}
PrivateNullifierLists ==
  {<<0>>, <<3>>, <<0, 3>>, <<3, 10>>, <<10, 3>>, <<7, 3>>, <<3, 3>>,
   <<3, 0, 10>>, <<0, 10, 0>>, <<3, 7, 10>>, <<10, 3, 7>>, <<10, 10, 3>>, <<0, 7, 0>>}
StorageKeys == AztecAddresses \X StorageSlots

VARIABLES
  doMerkleOperations,       \* Merkle mode, fixed at construction
  callerDiscipline,         \* TRUE: calls mirror the nested-call stack (spec section 5)
  parent,                   \* parent[m]: the manager fork() was called on, 0 for the root
  alreadyMergedIntoParent,  \* the one-shot resolution flag of each manager
  publicStorage,            \* publicStorage[m]: the overlay (address, slot) -> value
  nullifiers,               \* nullifiers[m]: the pending siloed nullifiers
  trace,                    \* trace[m]: the hints traced, in order
  merkleTrees,              \* merkleTrees[m]: the ephemeral forest object referred to
  firstNullifier,           \* firstNullifier[m]
  db,                       \* the persistent trees
  updateWitness,            \* the leaf sequentialInsert reports for an update: as found or as updated
  checkpoints,              \* the open checkpoints of the persistent accessor, oldest first
  callCount,                \* calls made so far
  callLimit,                \* calls the transaction makes at most
  history,                  \* what has been done so far, for the properties (no code reads it)
  ret                       \* the last call and its outcome

vars == <<doMerkleOperations, callerDiscipline, parent, alreadyMergedIntoParent,
          publicStorage, nullifiers, trace, merkleTrees, firstNullifier, db,
          updateWitness, checkpoints, callCount, callLimit, history, ret>>

Managers == 1..Len(parent)
Forks == {m \in Managers : parent[m] # 0}

\* ------------------------------------------------------------- hashing
\* Siloing hashes are collision free; they do not preserve the order of their inputs.
ComputePublicDataTreeLeafSlot(address, slot) == 10 * address - 2 * slot

SiloNullifier(address, nullifier) == 11 * address - 4 * nullifier

SiloedNullifiers == {SiloNullifier(a, n) : a \in AztecAddresses, n \in RawNullifiers}

\* ------------------------------------------------------------- persistent accessor
\* An indexed tree is the sequence of its leaf preimages; the leaf at index i is tree[i + 1].
SentinelLeaf == [key |-> 0, value |-> 0, nextKey |-> 0, nextIndex |-> 0]

\* A world state in which earlier blocks wrote slot (1, 1) and nullifier (1, 1) and
\* received the L1-to-L2 message 55.
PrefilledDb ==
  [publicDataTree |->
     <<[key |-> 0, value |-> 0, nextKey |-> ComputePublicDataTreeLeafSlot(1, 1), nextIndex |-> 1],
       [key |-> ComputePublicDataTreeLeafSlot(1, 1), value |-> 42, nextKey |-> 0, nextIndex |-> 0]>>,
   nullifierTree |->
     <<[key |-> 0, value |-> 0, nextKey |-> SiloNullifier(1, 1), nextIndex |-> 1],
       [key |-> SiloNullifier(1, 1), value |-> 0, nextKey |-> 0, nextIndex |-> 0]>>,
   noteHashTree |-> <<>>,
   l1ToL2MessageTree |-> <<55>>,
   contractInstances |-> {DeployerContractAddress},
   contractClasses |-> {DeployerContractAddress}]

InitialDbs == {PrefilledDb}

\* The same world state after the deployment of contract 4: the store holds its instance
\* and class, the Nullifier tree its deployment nullifier.
DeployedDb ==
  [PrefilledDb EXCEPT
     !.nullifierTree =
        <<[key |-> 0, value |-> 0, nextKey |-> SiloNullifier(DeployerContractAddress, 4),
           nextIndex |-> 2],
          [key |-> SiloNullifier(1, 1), value |-> 0, nextKey |-> 0, nextIndex |-> 0],
          [key |-> SiloNullifier(DeployerContractAddress, 4), value |-> 0,
           nextKey |-> SiloNullifier(1, 1), nextIndex |-> 1]>>,
     !.contractInstances = {DeployerContractAddress, 4},
     !.contractClasses = {DeployerContractAddress, 4}]

\* A world state whose indexed trees hold the sentinel leaf only.
EmptyDb ==
  [publicDataTree |-> <<SentinelLeaf>>,
   nullifierTree |-> <<SentinelLeaf>>,
   noteHashTree |-> <<>>,
   l1ToL2MessageTree |-> <<>>,
   contractInstances |-> {DeployerContractAddress},
   contractClasses |-> {DeployerContractAddress}]

GetPreviousValueIndex(tree, key) ==
  LET below == {i \in 1..Len(tree) : tree[i].key <= key}
  IN IF below = {}
     THEN [found |-> FALSE, index |-> 0, alreadyPresent |-> FALSE]
     ELSE LET i == CHOOSE i \in below : \A j \in below : tree[j].key <= tree[i].key
          IN [found |-> TRUE, index |-> i - 1, alreadyPresent |-> tree[i].key = key]

GetLeafPreimage(tree, index) == tree[index + 1]

GetSiblingPath(treeId, tree, index) == [treeId |-> treeId, index |-> index, size |-> Len(tree)]

\* The witness of an update is the leaf that held the key; section 4.4 does not say
\* whether it is reported as found or as updated, so an accessor may do either.
UpdateWitnesses == {"before", "after"}

SequentialInsert(tree, key, value) ==
  LET low == GetPreviousValueIndex(tree, key)
      lowPreimage == tree[low.index + 1]
      lowWitness == [leafPreimage |-> lowPreimage, index |-> low.index]
      updatedWitness == [leafPreimage |-> [lowPreimage EXCEPT !.value = value],
                         index |-> low.index]
      newLeaf == [key |-> key, value |-> value,
                  nextKey |-> lowPreimage.nextKey, nextIndex |-> lowPreimage.nextIndex]
      newIndex == Len(tree)
  IN IF low.alreadyPresent
     THEN [tree |-> [tree EXCEPT ![low.index + 1].value = value],
           lowLeavesWitnessData |->
             IF updateWitness = "after" THEN <<updatedWitness>> ELSE <<lowWitness>>,
           insertionWitnessData |-> <<>>]
     ELSE [tree |-> Append([tree EXCEPT ![low.index + 1].nextKey = key,
                                        ![low.index + 1].nextIndex = newIndex], newLeaf),
           lowLeavesWitnessData |-> <<lowWitness>>,
           insertionWitnessData |-> <<[leafPreimage |-> newLeaf, index |-> newIndex]>>]

CreateCheckpoint(stack, tree, opener) == Append(stack, [db |-> tree, openedBy |-> opener])

\* commit keeps the current trees and closes the newest open checkpoint;
\* closed names the fork whose checkpoint it was, 0 when none was open
CommitCheckpoint(stack, tree) ==
  IF stack = <<>> THEN [checkpoints |-> stack, db |-> tree, closed |-> 0]
  ELSE [checkpoints |-> SubSeq(stack, 1, Len(stack) - 1), db |-> tree,
        closed |-> stack[Len(stack)].openedBy]

\* revert restores the trees of the newest open checkpoint and closes it
RevertCheckpoint(stack, tree) ==
  IF stack = <<>> THEN [checkpoints |-> stack, db |-> tree, closed |-> 0]
  ELSE [checkpoints |-> SubSeq(stack, 1, Len(stack) - 1), db |-> stack[Len(stack)].db,
        closed |-> stack[Len(stack)].openedBy]

\* The leaf value at an index of an append-only tree, undefined when none was appended.
LeafValueAt(tree, leafIndex) ==
  IF leafIndex < Len(tree) THEN [defined |-> TRUE, value |-> tree[leafIndex + 1]]
  ELSE [defined |-> FALSE, value |-> 0]

\* WorldStateDB.getCommitmentValue and getL1ToL2LeafValue
GetCommitmentValue(leafIndex) == LeafValueAt(db.noteHashTree, leafIndex)

GetL1ToL2LeafValue(leafIndex) == LeafValueAt(db.l1ToL2MessageTree, leafIndex)

\* WorldStateDB.getContractInstance: the instance deployed at the address, if any.
\* An instance is written as its address, its class id as well; 0 stands for undefined.
DbGetContractInstance(address) ==
  IF address \in db.contractInstances
  THEN [defined |-> TRUE, address |-> address, contractClassId |-> address]
  ELSE [defined |-> FALSE, address |-> 0, contractClassId |-> 0]

\* WorldStateDB.getContractClass and getBytecodeCommitment
DbGetContractClass(contractClassId) == contractClassId \in db.contractClasses

DbGetBytecodeCommitment(contractClassId) == contractClassId \in db.contractClasses

\* appendLeaves on an append-only tree
AppendLeaves(tree, leaves) == tree \o leaves

\* WorldStateDB.storageRead: the value of the leaf of the leaf slot, 0 when there is none
StorageRead(tree, address, slot) ==
  LET low == GetPreviousValueIndex(tree, ComputePublicDataTreeLeafSlot(address, slot))
  IN IF low.found /\ low.alreadyPresent THEN GetLeafPreimage(tree, low.index).value ELSE 0

\* WorldStateDB.getNullifierIndex: whether the Nullifier tree holds the leaf
HostNullifierExists(tree, siloedNullifier) ==
  \E i \in 2..Len(tree) : tree[i].key = siloedNullifier

\* ------------------------------------------------------------- Value Cache
RECURSIVE PublicStorageReadCache(_, _, _, _)
PublicStorageReadCache(storage, m, address, slot) ==
  IF m = 0 THEN [cached |-> FALSE, value |-> 0]
  ELSE IF <<address, slot>> \in DOMAIN storage[m]
       THEN [cached |-> TRUE, value |-> storage[m][<<address, slot>>]]
       ELSE PublicStorageReadCache(storage, parent[m], address, slot)

PublicStorageRead(storage, tree, m, address, slot) ==
  LET hit == PublicStorageReadCache(storage, m, address, slot)
  IN IF hit.cached THEN hit ELSE [cached |-> FALSE, value |-> StorageRead(tree, address, slot)]

PublicStorageWrite(storage, m, address, slot, value) ==
  [storage EXCEPT ![m] =
     [k \in DOMAIN storage[m] \cup {<<address, slot>>} |->
        IF k = <<address, slot>> THEN value ELSE storage[m][k]]]

PublicStorageAcceptAndMerge(storage, m, child) ==
  [storage EXCEPT ![m] =
     [k \in DOMAIN storage[m] \cup DOMAIN storage[child] |->
        IF k \in DOMAIN storage[child] THEN storage[child][k] ELSE storage[m][k]]]

\* ------------------------------------------------------------- Append Set Cache
RECURSIVE NullifierPending(_, _, _)
NullifierPending(cache, m, siloedNullifier) ==
  IF m = 0 THEN FALSE
  ELSE siloedNullifier \in cache[m] \/ NullifierPending(cache, parent[m], siloedNullifier)

NullifiersCheckExists(cache, tree, m, siloedNullifier) ==
  LET pending == NullifierPending(cache, m, siloedNullifier)
  IN [exists |-> pending \/ HostNullifierExists(tree, siloedNullifier), isPending |-> pending]

NullifiersAppend(cache, m, siloedNullifier) ==
  [cache EXCEPT ![m] = cache[m] \cup {siloedNullifier}]

NullifiersAcceptAndMerge(cache, m, child) ==
  [cache EXCEPT ![m] = cache[m] \cup cache[child]]

\* ------------------------------------------------------------- trace
TraceAppend(tr, m, hint) == [tr EXCEPT ![m] = Append(tr[m], hint)]

MarkReverted(hints, reverted) ==
  [i \in 1..Len(hints) |-> [hints[i] EXCEPT !.reverted = hints[i].reverted \/ reverted]]

TraceMerge(tr, m, child, reverted) ==
  [tr EXCEPT ![m] = tr[m] \o MarkReverted(tr[child], reverted)]

\* ------------------------------------------------------------- state manager
Ok == "ok"
Fatal == "AssertionError"
Collision == "NullifierCollisionError"

Outcome(op, m, args, status, value, exists) ==
  [op |-> op, m |-> m, args |-> args, status |-> status, value |-> value, exists |-> exists]

\* The innermost manager of the nested-call stack: the newest one not yet resolved.
Current == CHOOSE m \in Managers :
             /\ ~alreadyMergedIntoParent[m]
             /\ \A k \in Managers : ~alreadyMergedIntoParent[k] => k <= m

\* A fatal assertion aborts the transaction; otherwise any unresolved manager can be
\* called, and under caller discipline only the innermost one.
Running == ret.status # Fatal /\ callCount < callLimit

CanCall(m) ==
  /\ Running
  /\ m \in Managers
  /\ ~alreadyMergedIntoParent[m]
  /\ callerDiscipline => m = Current

\* merge and reject are called on a manager with a fork as argument; under caller
\* discipline the frame that runs resolves the fork of the nested call that returned.
CanResolve(m, child) ==
  /\ Running
  /\ m \in Managers /\ child \in Forks /\ m # child
  /\ ~alreadyMergedIntoParent[m]
  /\ callerDiscipline =>
       IF alreadyMergedIntoParent[child] THEN m = Current
       ELSE child = Current /\ m = parent[child]

\* variant: the preimage is fetched at index 0, not at the index found
LeafInfoAtIndexZero(tree, key) ==
  LET leafOrLowLeafIndex == GetPreviousValueIndex(tree, key)
  IN [ok |-> leafOrLowLeafIndex.found,
      preimage |-> GetLeafPreimage(tree, 0),
      leafIndex |-> leafOrLowLeafIndex.index,
      alreadyPresent |-> leafOrLowLeafIndex.alreadyPresent]

GetLeafOrLowLeafInfo(tree, key) ==
  LET leafOrLowLeafIndex == GetPreviousValueIndex(tree, key)
  IN IF ~leafOrLowLeafIndex.found
     THEN [ok |-> FALSE, preimage |-> SentinelLeaf, leafIndex |-> 0, alreadyPresent |-> FALSE]
     ELSE [ok |-> TRUE,
           preimage |-> GetLeafPreimage(tree, leafOrLowLeafIndex.index),
           leafIndex |-> leafOrLowLeafIndex.index,
           alreadyPresent |-> leafOrLowLeafIndex.alreadyPresent]

\* The sanity check that a low leaf skips the key it witnesses the absence of.
LowLeafSkips(preimage, key) ==
  preimage.key < key /\ (preimage.nextIndex = 0 \/ preimage.nextKey > key)

\* --- readStorage
StorageReadHint(address, slot, value, info) ==
  [kind |-> "PublicStorageRead", address |-> address, slot |-> slot, value |-> value,
   leafPreimage |-> info.preimage, leafIndex |-> info.leafIndex, reverted |-> FALSE]

PlainStorageReadHint(address, slot, value) ==
  [kind |-> "PublicStorageRead", address |-> address, slot |-> slot, value |-> value,
   reverted |-> FALSE]

\* variant: with Merkle mode off the read is not traced
ReadStorageUntracedWhenPlain(merkle, tree, m, address, slot) ==
  LET read == PublicStorageRead(publicStorage, tree, m, address, slot)
      info == GetLeafOrLowLeafInfo(tree, ComputePublicDataTreeLeafSlot(address, slot))
  IN [status |-> Ok, value |-> read.value,
      hints |-> IF merkle THEN <<StorageReadHint(address, slot, read.value, info)>>
                ELSE <<>>]

\* What readStorage(address, slot) on manager m does in the current state:
\* its outcome, the value it returns and the hints it traces.
ReadStorageWith(merkle, tree, m, address, slot) ==
  LET read == PublicStorageRead(publicStorage, tree, m, address, slot)
      leafSlot == ComputePublicDataTreeLeafSlot(address, slot)
      info == GetLeafOrLowLeafInfo(tree, leafSlot)
      aborted == [status |-> Fatal, value |-> 0, hints |-> <<>>]
  IN IF merkle
     THEN IF ~info.ok THEN aborted
          ELSE IF info.alreadyPresent /\ info.preimage.value # read.value THEN aborted
          ELSE IF ~info.alreadyPresent /\ ~LowLeafSkips(info.preimage, leafSlot) THEN aborted
          ELSE [status |-> Ok, value |-> read.value,
                hints |-> <<StorageReadHint(address, slot, read.value, info)>>]
     ELSE [status |-> Ok, value |-> read.value,
           hints |-> <<PlainStorageReadHint(address, slot, read.value)>>]

ReadStorageResult(m, address, slot) ==
  ReadStorageWith(doMerkleOperations, db.publicDataTree, m, address, slot)

ReadStorage(m, address, slot) ==
  /\ CanCall(m)
  /\ callCount' = callCount + 1
  /\ LET r == ReadStorageResult(m, address, slot)
     IN /\ trace' = [trace EXCEPT ![m] = trace[m] \o r.hints]
        /\ ret' = Outcome("readStorage", m, <<address, slot>>, r.status, r.value, FALSE)
  /\ UNCHANGED <<doMerkleOperations, callerDiscipline, callLimit, updateWitness, parent, alreadyMergedIntoParent,
                 publicStorage, nullifiers, merkleTrees, firstNullifier, db, checkpoints,
                 history>>

\* --- peekStorage
\* variant: only the cache of the manager called is looked at
PeekStorageOwnCache(m, address, slot) ==
  IF <<address, slot>> \in DOMAIN publicStorage[m]
  THEN publicStorage[m][<<address, slot>>]
  ELSE 0

\* const { value, cached } = await this.publicStorage.read(contractAddress, slot)
PeekStorageResult(m, address, slot) ==
  PublicStorageRead(publicStorage, db.publicDataTree, m, address, slot).value

PeekStorage(m, address, slot) ==
  /\ CanCall(m)
  /\ callCount' = callCount + 1
  /\ ret' = Outcome("peekStorage", m, <<address, slot>>, Ok,
                    PeekStorageResult(m, address, slot), FALSE)
  /\ UNCHANGED <<doMerkleOperations, callerDiscipline, callLimit, updateWitness, parent,
                 alreadyMergedIntoParent, publicStorage, nullifiers, trace, merkleTrees,
                 firstNullifier, db, checkpoints, history>>

\* --- writeStorage
\* variant: the low-leaf preimage is traced as the new leaf, slot and value not set
StorageWriteHintNotCloned(address, slot, value, result) ==
  LET lowWitness == result.lowLeavesWitnessData[1]
  IN [kind |-> "PublicStorageWrite", address |-> address, slot |-> slot, value |-> value,
      lowLeafPreimage |-> lowWitness.leafPreimage,
      lowLeafIndex |-> lowWitness.index,
      newLeafPreimage |-> lowWitness.leafPreimage,
      hasInsertionPath |-> Len(result.insertionWitnessData) > 0,
      reverted |-> FALSE]

StorageWriteHint(address, slot, value, result) ==
  LET lowWitness == result.lowLeavesWitnessData[1]
      inserted == Len(result.insertionWitnessData) > 0
  IN [kind |-> "PublicStorageWrite", address |-> address, slot |-> slot, value |-> value,
      lowLeafPreimage |-> lowWitness.leafPreimage,
      lowLeafIndex |-> lowWitness.index,
      newLeafPreimage |->
        IF inserted
        THEN [lowWitness.leafPreimage EXCEPT
                !.key = ComputePublicDataTreeLeafSlot(address, slot), !.value = value]
        ELSE lowWitness.leafPreimage,
      hasInsertionPath |-> inserted,
      reverted |-> FALSE]

PlainStorageWriteHint(address, slot, value) ==
  [kind |-> "PublicStorageWrite", address |-> address, slot |-> slot, value |-> value,
   reverted |-> FALSE]

\* variant: the value is stored under every slot of the address
WriteStorageCacheWholeAddress(m, address, slot, value) ==
  [publicStorage EXCEPT ![m] =
     [k \in DOMAIN publicStorage[m] \cup {<<address, s>> : s \in StorageSlots} |->
        IF k[1] = address THEN value ELSE publicStorage[m][k]]]

WriteStorageCache(m, address, slot, value) ==
  PublicStorageWrite(publicStorage, m, address, slot, value)

\* The assertion of the branch without insertion witness.
WriteStorageValueMatches(result, value) ==
  Len(result.insertionWitnessData) = 0 =>
    result.lowLeavesWitnessData[1].leafPreimage.value = value

\* history: the value last written to each slot by a call that returned
Written(m, address, slot, value) ==
  [history EXCEPT !.lastWrite[m] =
     [k \in DOMAIN history.lastWrite[m] \cup {<<address, slot>>} |->
        IF k = <<address, slot>> THEN value ELSE history.lastWrite[m][k]]]

\* variant: the leaf is appended to the tree without looking for its key
PublicDataAppended(address, slot, value) ==
  LET tree == db.publicDataTree
      key == ComputePublicDataTreeLeafSlot(address, slot)
      low == GetPreviousValueIndex(tree, key)
      newLeaf == [key |-> key, value |-> value,
                  nextKey |-> tree[low.index + 1].nextKey,
                  nextIndex |-> tree[low.index + 1].nextIndex]
  IN [tree |-> Append(tree, newLeaf),
      lowLeavesWitnessData |-> <<[leafPreimage |-> tree[low.index + 1], index |-> low.index]>>,
      insertionWitnessData |-> <<[leafPreimage |-> newLeaf, index |-> Len(tree)]>>]

\* The sequential insert of the write into the PublicData tree.
PublicDataInsertion(address, slot, value) ==
  SequentialInsert(db.publicDataTree, ComputePublicDataTreeLeafSlot(address, slot), value)

WriteStorage(m, address, slot, value) ==
  /\ CanCall(m)
  /\ callCount' = callCount + 1
  /\ publicStorage' = WriteStorageCache(m, address, slot, value)
  /\ IF doMerkleOperations
     THEN LET result == PublicDataInsertion(address, slot, value)
          IN /\ db' = [db EXCEPT !.publicDataTree = result.tree]
             /\ IF WriteStorageValueMatches(result, value)
                THEN /\ trace' = TraceAppend(trace, m, StorageWriteHint(address, slot, value, result))
                     /\ history' = Written(m, address, slot, value)
                     /\ ret' = Outcome("writeStorage", m, <<address, slot, value>>, Ok, 0, FALSE)
                ELSE /\ trace' = trace
                     /\ history' = history
                     /\ ret' = Outcome("writeStorage", m, <<address, slot, value>>, Fatal, 0, FALSE)
     ELSE /\ db' = db
          /\ trace' = TraceAppend(trace, m, PlainStorageWriteHint(address, slot, value))
          /\ history' = Written(m, address, slot, value)
          /\ ret' = Outcome("writeStorage", m, <<address, slot, value>>, Ok, 0, FALSE)
  /\ UNCHANGED <<doMerkleOperations, callerDiscipline, callLimit, updateWitness, parent, alreadyMergedIntoParent,
                 nullifiers, merkleTrees, firstNullifier, checkpoints>>

\* --- checkNullifierExists
\* getNullifierMembership: existence from the Append Set Cache, cross-checked in
\* Merkle mode against the leaf or low leaf of the Nullifier tree.
GetNullifierMembership(m, siloedNullifier) ==
  LET check == NullifiersCheckExists(nullifiers, db.nullifierTree, m, siloedNullifier)
      info == GetLeafOrLowLeafInfo(db.nullifierTree, siloedNullifier)
  IN IF doMerkleOperations
     THEN IF ~info.ok THEN [status |-> Fatal, exists |-> check.exists, info |-> info]
          ELSE IF info.alreadyPresent # check.exists
               THEN [status |-> Fatal, exists |-> check.exists, info |-> info]
          ELSE IF ~check.exists /\ ~LowLeafSkips(info.preimage, siloedNullifier)
               THEN [status |-> Fatal, exists |-> check.exists, info |-> info]
          ELSE [status |-> Ok, exists |-> check.exists, info |-> info]
     ELSE [status |-> Ok, exists |-> check.exists,
           info |-> [ok |-> TRUE, preimage |-> SentinelLeaf, leafIndex |-> 0,
                     alreadyPresent |-> FALSE]]

NullifierCheckHint(siloedNullifier, exists, info) ==
  [kind |-> "NullifierCheck", nullifier |-> siloedNullifier, exists |-> exists,
   leafPreimage |-> info.preimage, leafIndex |-> info.leafIndex, reverted |-> FALSE]

PlainNullifierCheckHint(siloedNullifier, exists) ==
  [kind |-> "NullifierCheck", nullifier |-> siloedNullifier, exists |-> exists,
   reverted |-> FALSE]

CheckNullifierExistsResult(m, address, nullifier) ==
  LET siloedNullifier == SiloNullifier(address, nullifier)
      membership == GetNullifierMembership(m, siloedNullifier)
  IN [status |-> membership.status,
      exists |-> membership.exists,
      hints |-> IF membership.status # Ok THEN <<>>
                ELSE IF doMerkleOperations
                     THEN <<NullifierCheckHint(siloedNullifier, membership.exists, membership.info)>>
                     ELSE <<PlainNullifierCheckHint(siloedNullifier, membership.exists)>>]

CheckNullifierExists(m, address, nullifier) ==
  /\ CanCall(m)
  /\ callCount' = callCount + 1
  /\ LET r == CheckNullifierExistsResult(m, address, nullifier)
     IN /\ trace' = [trace EXCEPT ![m] = trace[m] \o r.hints]
        /\ ret' = Outcome("checkNullifierExists", m, <<address, nullifier>>, r.status, 0, r.exists)
  /\ UNCHANGED <<doMerkleOperations, callerDiscipline, callLimit, updateWitness, parent, alreadyMergedIntoParent,
                 publicStorage, nullifiers, merkleTrees, firstNullifier, db, checkpoints,
                 history>>

\* --- writeSiloedNullifier
NewNullifierHint(siloedNullifier, result) ==
  [kind |-> "NewNullifier", nullifier |-> siloedNullifier,
   lowLeafPreimage |-> result.lowLeavesWitnessData[1].leafPreimage,
   lowLeafIndex |-> result.lowLeavesWitnessData[1].index,
   insertionIndex |-> result.insertionWitnessData[1].index,
   reverted |-> FALSE]

PlainNewNullifierHint(siloedNullifier) ==
  [kind |-> "NewNullifier", nullifier |-> siloedNullifier, reverted |-> FALSE]

\* variant: the error is thrown before anything is traced
NoCollisionHints(siloedNullifier, info) == <<>>

\* variant: the failed write is traced as a check and as a new nullifier
CollisionTracedAsWrite(siloedNullifier, info) ==
  <<NullifierCheckHint(siloedNullifier, TRUE, info), PlainNewNullifierHint(siloedNullifier)>>

\* The hints traced before NullifierCollisionError is thrown.
CollisionHints(siloedNullifier, info) == <<NullifierCheckHint(siloedNullifier, TRUE, info)>>

\* Whether writeSiloedNullifier finds the nullifier and refuses the write.
NullifierAlreadyPresent(m, siloedNullifier) ==
  doMerkleOperations /\ GetLeafOrLowLeafInfo(db.nullifierTree, siloedNullifier).alreadyPresent

\* What writeSiloedNullifier(siloedNullifier) on manager m does in the current state:
\* its outcome, the Append Set Cache, the Nullifier tree and the hints traced.
\* variant: the nullifier reaches the Append Set Cache but not the tree
NoNullifierTreeInsertion(siloedNullifier) ==
  [SequentialInsert(db.nullifierTree, siloedNullifier, 0) EXCEPT !.tree = db.nullifierTree]

\* The sequential insert of the nullifier into the Nullifier tree.
NullifierTreeInsertion(siloedNullifier) ==
  SequentialInsert(db.nullifierTree, siloedNullifier, 0)

\* variant: the nullifier is inserted into the tree with Merkle mode off too
WriteSiloedNullifierAlwaysInserts(m, siloedNullifier) ==
  [status |-> Ok,
   nullifiers |-> NullifiersAppend(nullifiers, m, siloedNullifier),
   tree |-> NullifierTreeInsertion(siloedNullifier).tree,
   hints |-> <<PlainNewNullifierHint(siloedNullifier)>>]

WriteSiloedNullifierResult(m, siloedNullifier) ==
  LET info == GetLeafOrLowLeafInfo(db.nullifierTree, siloedNullifier)
      result == NullifierTreeInsertion(siloedNullifier)
  IN IF doMerkleOperations
     THEN IF ~info.ok
          THEN [status |-> Fatal, nullifiers |-> nullifiers, tree |-> db.nullifierTree,
                hints |-> <<>>]
          ELSE IF NullifierAlreadyPresent(m, siloedNullifier)
          THEN [status |-> Collision, nullifiers |-> nullifiers, tree |-> db.nullifierTree,
                hints |-> CollisionHints(siloedNullifier, info)]
          ELSE [status |-> Ok,
                nullifiers |-> NullifiersAppend(nullifiers, m, siloedNullifier),
                tree |-> result.tree,
                hints |-> <<NewNullifierHint(siloedNullifier, result)>>]
     ELSE [status |-> Ok,
           nullifiers |-> NullifiersAppend(nullifiers, m, siloedNullifier),
           tree |-> db.nullifierTree,
           hints |-> <<PlainNewNullifierHint(siloedNullifier)>>]

WriteSiloedNullifier(m, siloedNullifier) ==
  /\ CanCall(m)
  /\ callCount' = callCount + 1
  /\ LET r == WriteSiloedNullifierResult(m, siloedNullifier)
     IN /\ nullifiers' = r.nullifiers
        /\ db' = [db EXCEPT !.nullifierTree = r.tree]
        /\ trace' = [trace EXCEPT ![m] = trace[m] \o r.hints]
        /\ history' = IF r.status = Ok
                      THEN [history EXCEPT !.effective[m] = @ \cup {siloedNullifier}]
                      ELSE history
        /\ ret' = Outcome("writeSiloedNullifier", m, <<siloedNullifier>>, r.status, 0, FALSE)
  /\ UNCHANGED <<doMerkleOperations, callerDiscipline, callLimit, updateWitness, parent, alreadyMergedIntoParent,
                 publicStorage, merkleTrees, firstNullifier, checkpoints>>

\* --- writeSiloedNullifiersFromPrivate
\* variant: empty nullifiers are written like the others
AllNullifiers(siloedNullifiers) == siloedNullifiers

\* siloedNullifiers.filter(n => !n.isEmpty())
NonEmptyNullifiers(siloedNullifiers) == SelectSeq(siloedNullifiers, LAMBDA n : n # 0)

\* writeSiloedNullifier(siloedNullifier) on manager m, from the Append Set Caches and the
\* Nullifier tree an earlier write of the same list has left
WriteSiloedNullifierOn(cache, tree, m, siloedNullifier) ==
  LET info == GetLeafOrLowLeafInfo(tree, siloedNullifier)
      result == SequentialInsert(tree, siloedNullifier, 0)
  IN IF doMerkleOperations
     THEN IF ~info.ok
          THEN [status |-> Fatal, nullifiers |-> cache, tree |-> tree, hints |-> <<>>]
          ELSE IF info.alreadyPresent
          THEN [status |-> Collision, nullifiers |-> cache, tree |-> tree,
                hints |-> CollisionHints(siloedNullifier, info)]
          ELSE [status |-> Ok,
                nullifiers |-> NullifiersAppend(cache, m, siloedNullifier),
                tree |-> result.tree,
                hints |-> <<NewNullifierHint(siloedNullifier, result)>>]
     ELSE [status |-> Ok,
           nullifiers |-> NullifiersAppend(cache, m, siloedNullifier),
           tree |-> tree,
           hints |-> <<PlainNewNullifierHint(siloedNullifier)>>]

\* The loop: one write after the other, left by the first write that throws.
RECURSIVE WriteNullifiersInOrder(_, _, _)
WriteNullifiersInOrder(done, m, siloedNullifiers) ==
  IF siloedNullifiers = <<>> THEN done
  ELSE LET r == WriteSiloedNullifierOn(done.nullifiers, done.tree, m, Head(siloedNullifiers))
           next == [status |-> r.status, nullifiers |-> r.nullifiers, tree |-> r.tree,
                    hints |-> done.hints \o r.hints,
                    written |-> IF r.status = Ok
                                THEN done.written \cup {Head(siloedNullifiers)}
                                ELSE done.written]
       IN IF r.status = Ok
          THEN WriteNullifiersInOrder(next, m, Tail(siloedNullifiers))
          ELSE next

WriteSiloedNullifiersFromPrivate(m, siloedNullifiers) ==
  /\ CanCall(m)
  /\ callCount' = callCount + 1
  /\ LET r == WriteNullifiersInOrder(
                 [status |-> Ok, nullifiers |-> nullifiers, tree |-> db.nullifierTree,
                  hints |-> <<>>, written |-> {}],
                 m, NonEmptyNullifiers(siloedNullifiers))
     IN /\ nullifiers' = r.nullifiers
        /\ db' = [db EXCEPT !.nullifierTree = r.tree]
        /\ trace' = [trace EXCEPT ![m] = trace[m] \o r.hints]
        /\ history' = [history EXCEPT !.effective[m] = @ \cup r.written]
        /\ ret' = Outcome("writeSiloedNullifiersFromPrivate", m, <<siloedNullifiers>>,
                          r.status, 0, FALSE)
  /\ UNCHANGED <<doMerkleOperations, callerDiscipline, callLimit, updateWitness, parent,
                 alreadyMergedIntoParent, publicStorage, merkleTrees, firstNullifier,
                 checkpoints>>

\* --- writeNullifier
\* silos the nullifier and delegates: the call recorded is the writeSiloedNullifier call
WriteNullifier(m, address, nullifier) ==
  WriteSiloedNullifier(m, SiloNullifier(address, nullifier))

\* --- writeUniqueNoteHash
\* variant: the leaf index traced is the size of the tree after the append
NewNoteHashHintSizeAfter(uniqueNoteHash, leafIndex, insertionPath) ==
  [kind |-> "NewNoteHash", noteHash |-> uniqueNoteHash, leafIndex |-> leafIndex + 1,
   insertionPath |-> insertionPath, reverted |-> FALSE]

NewNoteHashHint(uniqueNoteHash, leafIndex, insertionPath) ==
  [kind |-> "NewNoteHash", noteHash |-> uniqueNoteHash, leafIndex |-> leafIndex,
   insertionPath |-> insertionPath, reverted |-> FALSE]

PlainNewNoteHashHint(uniqueNoteHash) ==
  [kind |-> "NewNoteHash", noteHash |-> uniqueNoteHash, reverted |-> FALSE]

WriteUniqueNoteHash(m, uniqueNoteHash) ==
  /\ CanCall(m)
  /\ callCount' = callCount + 1
  /\ IF doMerkleOperations
     THEN LET leafIndex == Len(db.noteHashTree)
              appended == AppendLeaves(db.noteHashTree, <<uniqueNoteHash>>)
          IN /\ db' = [db EXCEPT !.noteHashTree = appended]
             /\ trace' = TraceAppend(trace, m,
                            NewNoteHashHint(uniqueNoteHash, leafIndex,
                                            GetSiblingPath("NOTE_HASH_TREE", appended, leafIndex)))
     ELSE /\ db' = db
          /\ trace' = TraceAppend(trace, m, PlainNewNoteHashHint(uniqueNoteHash))
  /\ ret' = Outcome("writeUniqueNoteHash", m, <<uniqueNoteHash>>, Ok, 0, FALSE)
  /\ UNCHANGED <<doMerkleOperations, callerDiscipline, callLimit, updateWitness, parent, alreadyMergedIntoParent,
                 publicStorage, nullifiers, merkleTrees, firstNullifier, checkpoints, history>>

\* --- checkNoteHashExists / checkL1ToL2MessageExists
\* variant: a missing leaf is not taken for the zero leaf, it equals no hash
MissingEqualsNothing(got, hash) == got.defined /\ got.value = hash

\* gotLeafValue = (value ?? Fr.ZERO); exists = gotLeafValue.equals(hash)
LeafEquals(got, hash) == (IF got.defined THEN got.value ELSE 0) = hash

NoteHashCheckHint(address, got, leafIndex, exists) ==
  [kind |-> "NoteHashCheck", address |-> address,
   leafValue |-> IF got.defined THEN got.value ELSE 0, leafIndex |-> leafIndex,
   exists |-> exists,
   path |-> GetSiblingPath("NOTE_HASH_TREE", db.noteHashTree, leafIndex), reverted |-> FALSE]

PlainNoteHashCheckHint(address, got, leafIndex, exists) ==
  [kind |-> "NoteHashCheck", address |-> address,
   leafValue |-> IF got.defined THEN got.value ELSE 0, leafIndex |-> leafIndex,
   exists |-> exists, reverted |-> FALSE]

CheckNoteHashExists(m, address, noteHash, leafIndex) ==
  /\ CanCall(m)
  /\ callCount' = callCount + 1
  /\ LET got == GetCommitmentValue(leafIndex)
         exists == LeafEquals(got, noteHash)
     IN /\ trace' = TraceAppend(trace, m,
                       IF doMerkleOperations
                       THEN NoteHashCheckHint(address, got, leafIndex, exists)
                       ELSE PlainNoteHashCheckHint(address, got, leafIndex, exists))
        /\ ret' = Outcome("checkNoteHashExists", m, <<address, noteHash, leafIndex>>, Ok,
                          IF got.defined THEN got.value ELSE 0, exists)
  /\ UNCHANGED <<doMerkleOperations, callerDiscipline, callLimit, updateWitness, parent,
                 alreadyMergedIntoParent, publicStorage, nullifiers, merkleTrees,
                 firstNullifier, db, checkpoints, history>>

L1ToL2MessageCheckHint(address, got, leafIndex, exists) ==
  [kind |-> "L1ToL2MessageCheck", address |-> address,
   leafValue |-> IF got.defined THEN got.value ELSE 0, leafIndex |-> leafIndex,
   exists |-> exists,
   path |-> GetSiblingPath("L1_TO_L2_MESSAGE_TREE", db.l1ToL2MessageTree, leafIndex),
   reverted |-> FALSE]

PlainL1ToL2MessageCheckHint(address, got, leafIndex, exists) ==
  [kind |-> "L1ToL2MessageCheck", address |-> address,
   leafValue |-> IF got.defined THEN got.value ELSE 0, leafIndex |-> leafIndex,
   exists |-> exists, reverted |-> FALSE]

CheckL1ToL2MessageExists(m, address, msgHash, msgLeafIndex) ==
  /\ CanCall(m)
  /\ callCount' = callCount + 1
  /\ LET got == GetL1ToL2LeafValue(msgLeafIndex)
         exists == LeafEquals(got, msgHash)
     IN /\ trace' = TraceAppend(trace, m,
                       IF doMerkleOperations
                       THEN L1ToL2MessageCheckHint(address, got, msgLeafIndex, exists)
                       ELSE PlainL1ToL2MessageCheckHint(address, got, msgLeafIndex, exists))
        /\ ret' = Outcome("checkL1ToL2MessageExists", m, <<address, msgHash, msgLeafIndex>>,
                          Ok, IF got.defined THEN got.value ELSE 0, exists)
  /\ UNCHANGED <<doMerkleOperations, callerDiscipline, callLimit, updateWitness, parent,
                 alreadyMergedIntoParent, publicStorage, nullifiers, merkleTrees,
                 firstNullifier, db, checkpoints, history>>

\* --- writeL2ToL1Message / writePublicLog
L2ToL1MessageHint(contractAddress, recipient, content) ==
  [kind |-> "NewL2ToL1Message", address |-> contractAddress, recipient |-> recipient,
   content |-> content, reverted |-> FALSE]

\* variant: the message is not traced
L2ToL1MessageDropped(m, contractAddress, recipient, content) == trace

\* this.trace.traceNewL2ToL1Message(contractAddress, recipient, content)
TraceNewL2ToL1Message(m, contractAddress, recipient, content) ==
  TraceAppend(trace, m, L2ToL1MessageHint(contractAddress, recipient, content))

WriteL2ToL1Message(m, contractAddress, recipient, content) ==
  /\ CanCall(m)
  /\ callCount' = callCount + 1
  /\ trace' = TraceNewL2ToL1Message(m, contractAddress, recipient, content)
  /\ ret' = Outcome("writeL2ToL1Message", m, <<contractAddress, recipient, content>>, Ok,
                    0, FALSE)
  /\ UNCHANGED <<doMerkleOperations, callerDiscipline, callLimit, updateWitness, parent,
                 alreadyMergedIntoParent, publicStorage, nullifiers, merkleTrees,
                 firstNullifier, db, checkpoints, history>>

PublicLogHint(contractAddress, log) ==
  [kind |-> "PublicLog", address |-> contractAddress, log |-> log, reverted |-> FALSE]

\* this.trace.tracePublicLog(contractAddress, log)
TracePublicLog(m, contractAddress, log) ==
  TraceAppend(trace, m, PublicLogHint(contractAddress, log))

WritePublicLog(m, contractAddress, log) ==
  /\ CanCall(m)
  /\ callCount' = callCount + 1
  /\ trace' = TracePublicLog(m, contractAddress, log)
  /\ ret' = Outcome("writePublicLog", m, <<contractAddress, log>>, Ok, 0, FALSE)
  /\ UNCHANGED <<doMerkleOperations, callerDiscipline, callLimit, updateWitness, parent,
                 alreadyMergedIntoParent, publicStorage, nullifiers, merkleTrees,
                 firstNullifier, db, checkpoints, history>>

\* --- getContractInstance / getBytecode
\* variant: no address bypasses the cross-check
NoAddressIsCanonical(contractAddress) == FALSE

ContractAddressIsCanonical(contractAddress) == contractAddress \in CanonicalAddresses

\* NullifierLeafPreimage.empty(), Fr.ZERO: the witness of a canonical address
EmptyMembership ==
  [status |-> Ok, exists |-> FALSE,
   info |-> [ok |-> TRUE, preimage |-> SentinelLeaf, leafIndex |-> 0, alreadyPresent |-> FALSE]]

\* variant: the existence in the store is not compared with the nullifier membership
StoreTrusted(exists, membership) == TRUE

\* assert(exists == existsInTree)
StoreAgreesWithTree(exists, membership) == exists = membership.exists

\* The lookup both calls start with: the store, then for a non-canonical address the
\* membership of the deployment nullifier and the cross-check.
ContractLookup(m, contractAddress) ==
  LET instance == DbGetContractInstance(contractAddress)
      exists == instance.defined
      membership ==
        IF ContractAddressIsCanonical(contractAddress)
        THEN [EmptyMembership EXCEPT !.exists = exists]
        ELSE GetNullifierMembership(m, SiloNullifier(DeployerContractAddress, contractAddress))
  IN [status |-> IF membership.status # Ok THEN Fatal
                 ELSE IF ~ContractAddressIsCanonical(contractAddress)
                         /\ ~StoreAgreesWithTree(exists, membership)
                      THEN Fatal
                 ELSE Ok,
      exists |-> exists, instance |-> instance, info |-> membership.info]

ContractInstanceHint(contractAddress, lookup) ==
  [kind |-> "GetContractInstance", address |-> contractAddress, exists |-> lookup.exists,
   instance |-> lookup.instance.address,
   leafPreimage |-> lookup.info.preimage, leafIndex |-> lookup.info.leafIndex,
   reverted |-> FALSE]

PlainContractInstanceHint(contractAddress, lookup) ==
  [kind |-> "GetContractInstance", address |-> contractAddress, exists |-> lookup.exists,
   instance |-> lookup.instance.address, reverted |-> FALSE]

GetContractInstance(m, contractAddress) ==
  /\ CanCall(m)
  /\ callCount' = callCount + 1
  /\ LET lookup == ContractLookup(m, contractAddress)
     IN /\ trace' = IF lookup.status # Ok THEN trace
                    ELSE TraceAppend(trace, m,
                           IF doMerkleOperations
                           THEN ContractInstanceHint(contractAddress, lookup)
                           ELSE PlainContractInstanceHint(contractAddress, lookup))
        /\ ret' = Outcome("getContractInstance", m, <<contractAddress>>, lookup.status,
                          IF lookup.status = Ok THEN lookup.instance.address ELSE 0,
                          lookup.exists)
  /\ UNCHANGED <<doMerkleOperations, callerDiscipline, callLimit, updateWitness, parent,
                 alreadyMergedIntoParent, publicStorage, nullifiers, merkleTrees,
                 firstNullifier, db, checkpoints, history>>

\* assert(contractClass), assert(bytecodeCommitment)
ClassFound(lookup) ==
  /\ DbGetContractClass(lookup.instance.contractClassId)
  /\ DbGetBytecodeCommitment(lookup.instance.contractClassId)

\* The bytecode of a class is written as the class id; 0 stands for undefined.
BytecodeHint(contractAddress, lookup) ==
  [kind |-> "GetBytecode", address |-> contractAddress, exists |-> lookup.exists,
   bytecode |-> lookup.instance.contractClassId, instance |-> lookup.instance.address,
   leafPreimage |-> lookup.info.preimage, leafIndex |-> lookup.info.leafIndex,
   reverted |-> FALSE]

PlainBytecodeHint(contractAddress, lookup) ==
  [kind |-> "GetBytecode", address |-> contractAddress, exists |-> lookup.exists,
   bytecode |-> lookup.instance.contractClassId, instance |-> lookup.instance.address,
   reverted |-> FALSE]

GetBytecode(m, contractAddress) ==
  /\ CanCall(m)
  /\ callCount' = callCount + 1
  /\ LET lookup == ContractLookup(m, contractAddress)
         status == IF lookup.status # Ok THEN Fatal
                   ELSE IF lookup.exists /\ ~ClassFound(lookup) THEN Fatal
                   ELSE Ok
     IN /\ trace' = IF status # Ok THEN trace
                    ELSE TraceAppend(trace, m,
                           IF doMerkleOperations
                           THEN BytecodeHint(contractAddress, lookup)
                           ELSE PlainBytecodeHint(contractAddress, lookup))
        /\ ret' = Outcome("getBytecode", m, <<contractAddress>>, status,
                          IF status = Ok THEN lookup.instance.contractClassId ELSE 0,
                          lookup.exists)
  /\ UNCHANGED <<doMerkleOperations, callerDiscipline, callLimit, updateWitness, parent,
                 alreadyMergedIntoParent, publicStorage, nullifiers, merkleTrees,
                 firstNullifier, db, checkpoints, history>>

\* --- fork
\* variant: fork() opens no checkpoint
NoCheckpoint(child) == checkpoints

ForkCheckpoint(child) == CreateCheckpoint(checkpoints, db, child)

\* variant: the fork derives a seed of its own
FreshFirstNullifier(m) == firstNullifier[m] + 1

\* the firstNullifier handed to the constructor of the fork
ForkFirstNullifier(m) == firstNullifier[m]

\* history: what readStorage returns on m for every slot
ReadsOf(m) ==
  [k \in StorageKeys |->
     [status |-> ReadStorageResult(m, k[1], k[2]).status,
      value |-> ReadStorageResult(m, k[1], k[2]).value]]

Fork(m) ==
  /\ CanCall(m)
  /\ callCount' = callCount + 1
  /\ LET child == Len(parent) + 1
     IN /\ checkpoints' = ForkCheckpoint(child)
        /\ parent' = Append(parent, m)
        /\ alreadyMergedIntoParent' = Append(alreadyMergedIntoParent, FALSE)
        /\ trace' = Append(trace, <<>>)
        /\ publicStorage' = Append(publicStorage, <<>>)
        /\ nullifiers' = Append(nullifiers, {})
        /\ merkleTrees' = Append(merkleTrees, child)
        /\ firstNullifier' = Append(firstNullifier, ForkFirstNullifier(m))
        /\ history' = [history EXCEPT
                          !.lastWrite = Append(@, <<>>),
                          !.effective = Append(@, {}),
                          !.readAtFork = Append(@, ReadsOf(m)),
                          !.dbAtFork = Append(@, db)]
        /\ ret' = Outcome("fork", m, <<child>>, Ok, child, FALSE)
  /\ UNCHANGED <<doMerkleOperations, callerDiscipline, callLimit, updateWitness, db>>

\* --- merge / reject
MergedPublicStorage(m, forkedState, reverted) ==
  PublicStorageAcceptAndMerge(publicStorage, m, forkedState)

MergedNullifiers(m, forkedState, reverted) ==
  NullifiersAcceptAndMerge(nullifiers, m, forkedState)

\* variant: the hints of a rejected fork are dropped
TraceDroppedOnReject(m, forkedState, reverted) ==
  IF reverted THEN trace ELSE TraceMerge(trace, m, forkedState, reverted)

MergedTrace(m, forkedState, reverted) == TraceMerge(trace, m, forkedState, reverted)

\* variant: the checkpoint is committed whether or not the fork reverted
CommittedCheckpoint(reverted) == CommitCheckpoint(checkpoints, db)

\* variant: a resolution leaves the checkpoint of the fork open
KeptCheckpoint(reverted) == [checkpoints |-> checkpoints, db |-> db, closed |-> 0]

ClosedCheckpoint(reverted) ==
  IF reverted THEN RevertCheckpoint(checkpoints, db) ELSE CommitCheckpoint(checkpoints, db)

\* variant: the one-shot flag is not consulted
NeverResolved(forkedState) == FALSE

\* variant: every fork is taken for resolved
AlwaysResolved(forkedState) == TRUE

AlreadyResolved(forkedState) == alreadyMergedIntoParent[forkedState]

\* The newest fork not yet resolved, 0 when there is none.
NewestActiveFork ==
  LET active == {c \in Forks : ~alreadyMergedIntoParent[c]}
  IN IF active = {} THEN 0 ELSE CHOOSE c \in active : \A d \in active : d <= c

\* history: a merge makes the fork's writes the parent's, a reject does not; inOrder
\* records that every fork was resolved while it was the newest active one
Resolved(m, forkedState, reverted) ==
  [history EXCEPT
     !.lastWrite[m] =
        IF reverted THEN @
        ELSE [k \in DOMAIN @ \cup DOMAIN history.lastWrite[forkedState] |->
                IF k \in DOMAIN history.lastWrite[forkedState]
                THEN history.lastWrite[forkedState][k] ELSE @[k]],
     !.effective[m] = IF reverted THEN @ ELSE @ \cup history.effective[forkedState],
     !.inOrder = @ /\ forkedState = NewestActiveFork]

MergeInternal(m, forkedState, reverted) ==
  /\ CanResolve(m, forkedState)
  /\ callCount' = callCount + 1
  /\ LET op == IF reverted THEN "reject" ELSE "merge"
     IN IF AlreadyResolved(forkedState)
        THEN /\ ret' = Outcome(op, m, <<forkedState>>, Fatal, 0, FALSE)
             /\ UNCHANGED <<alreadyMergedIntoParent, publicStorage, nullifiers, trace,
                            checkpoints, db, merkleTrees, history>>
        ELSE /\ alreadyMergedIntoParent' = [alreadyMergedIntoParent EXCEPT ![forkedState] = TRUE]
             /\ publicStorage' = MergedPublicStorage(m, forkedState, reverted)
             /\ nullifiers' = MergedNullifiers(m, forkedState, reverted)
             /\ trace' = MergedTrace(m, forkedState, reverted)
             /\ checkpoints' = ClosedCheckpoint(reverted).checkpoints
             /\ db' = ClosedCheckpoint(reverted).db
             /\ merkleTrees' = IF reverted THEN merkleTrees
                               ELSE [merkleTrees EXCEPT ![m] = merkleTrees[forkedState]]
             /\ history' = Resolved(m, forkedState, reverted)
             /\ ret' = Outcome(op, m, <<forkedState>>, Ok, ClosedCheckpoint(reverted).closed, FALSE)
  /\ UNCHANGED <<doMerkleOperations, callerDiscipline, callLimit, updateWitness, parent, firstNullifier>>

Merge(m, forkedState) == MergeInternal(m, forkedState, FALSE)

Reject(m, forkedState) == MergeInternal(m, forkedState, TRUE)

\* ------------------------------------------------------------- specification
InitManagers ==
  /\ parent = <<0>>
  /\ alreadyMergedIntoParent = <<FALSE>>
  /\ publicStorage = << <<>> >>
  /\ nullifiers = <<{}>>
  /\ trace = << <<>> >>
  /\ merkleTrees = <<1>>
  /\ firstNullifier \in {<<f>> : f \in FirstNullifiers}
  /\ checkpoints = <<>>
  /\ callCount = 0
  /\ history = [lastWrite |-> << <<>> >>, effective |-> <<{}>>,
                readAtFork |-> << <<>> >>, dbAtFork |-> <<db>>, inOrder |-> TRUE]
  /\ ret = Outcome("create", 1, <<>>, Ok, 0, FALSE)

InitFrom(discipline, limit, dbs) ==
  /\ doMerkleOperations \in BOOLEAN
  /\ callerDiscipline = discipline
  /\ callLimit = limit
  /\ updateWitness \in (IF doMerkleOperations THEN UpdateWitnesses ELSE {"before"})
  /\ db \in dbs
  /\ InitManagers

InitWith(discipline, limit) == InitFrom(discipline, limit, InitialDbs)

Init == InitWith(TRUE, MaxCalls)

DoFork == \E m \in Managers : Fork(m)

DoMerge == \E m \in Managers, c \in Managers : Merge(m, c)

DoReject == \E m \in Managers, c \in Managers : Reject(m, c)

DoWriteStorage ==
  \E m \in Managers, a \in AztecAddresses, s \in StorageSlots, v \in StorageValues :
    WriteStorage(m, a, s, v)

DoReadStorage == \E m \in Managers, a \in AztecAddresses, s \in StorageSlots : ReadStorage(m, a, s)

DoCheckNullifierExists ==
  \E m \in Managers, a \in AztecAddresses, n \in RawNullifiers : CheckNullifierExists(m, a, n)

DoWriteSiloedNullifier ==
  \E m \in Managers, n \in SiloedNullifiers : WriteSiloedNullifier(m, n)

DoWriteNullifier ==
  \E m \in Managers, a \in AztecAddresses, n \in RawNullifiers : WriteNullifier(m, a, n)

DoWriteUniqueNoteHash ==
  \E m \in Managers, h \in UniqueNoteHashes : WriteUniqueNoteHash(m, h)

DoCheckNoteHashExists ==
  \E m \in Managers, a \in AztecAddresses, h \in NoteHashes, i \in LeafIndices :
    CheckNoteHashExists(m, a, h, i)

DoWriteL2ToL1Message ==
  \E m \in Managers, a \in AztecAddresses, r \in L1Recipients, c \in MessageContents :
    WriteL2ToL1Message(m, a, r, c)

DoWritePublicLog ==
  \E m \in Managers, a \in AztecAddresses, l \in PublicLogs : WritePublicLog(m, a, l)

DoGetContractInstance ==
  \E m \in Managers, a \in ContractAddresses : GetContractInstance(m, a)

DoGetBytecode == \E m \in Managers, a \in ContractAddresses : GetBytecode(m, a)

\* the nullifier the deployer contract emits when a contract is deployed at address a
DoWriteDeploymentNullifier ==
  \E m \in Managers, a \in ContractAddresses \ {DeployerContractAddress} :
    WriteNullifier(m, DeployerContractAddress, a)

DoCheckL1ToL2MessageExists ==
  \E m \in Managers, a \in AztecAddresses, h \in MessageHashes, i \in LeafIndices :
    CheckL1ToL2MessageExists(m, a, h, i)

\* storage calls across forks
Next ==
  \/ DoFork
  \/ DoMerge
  \/ DoReject
  \/ DoWriteStorage

Spec == Init /\ [][Next]_vars

\* nullifier calls across forks
NextNullifiers ==
  \/ DoFork
  \/ DoMerge
  \/ DoReject
  \/ DoCheckNullifierExists
  \/ DoWriteSiloedNullifier
  \/ DoWriteNullifier

SpecNullifiers == Init /\ [][NextNullifiers]_vars

\* Merkle mode: every call that writes a persistent tree, across forks
InitMerkle == InitWith(TRUE, MaxTreeCalls) /\ doMerkleOperations

NextTrees ==
  \/ DoFork
  \/ DoMerge
  \/ DoReject
  \/ DoWriteStorage
  \/ DoWriteSiloedNullifier
  \/ DoWriteUniqueNoteHash

SpecTrees == InitMerkle /\ [][NextTrees]_vars

\* fork, merge and reject called in any order on any unresolved manager
InitAnyOrder == InitWith(FALSE, MaxAnyOrderCalls)

NextAnyOrder ==
  \/ DoFork
  \/ DoMerge
  \/ DoReject
  \/ DoWriteUniqueNoteHash

SpecAnyOrder == InitAnyOrder /\ [][NextAnyOrder]_vars

\* Merkle mode: nullifiers written to a tree that holds the sentinel leaf only
InitEmptyTree == InitFrom(TRUE, MaxScenarioCalls, {EmptyDb}) /\ doMerkleOperations

DoWriteScenarioNullifier ==
  \E m \in Managers, n \in ScenarioNullifiers : WriteSiloedNullifier(m, n)

NextEmptyTree == DoWriteScenarioNullifier

SpecEmptyTree == InitEmptyTree /\ [][NextEmptyTree]_vars

\* Note hashes and L1-to-L2 messages: the append and the checks by leaf index
InitLeafChecks == InitWith(TRUE, MaxCheckCalls)

NextLeafChecks ==
  \/ DoFork
  \/ DoMerge
  \/ DoReject
  \/ DoWriteUniqueNoteHash
  \/ DoCheckNoteHashExists
  \/ DoCheckL1ToL2MessageExists

SpecLeafChecks == InitLeafChecks /\ [][NextLeafChecks]_vars

\* Contract lookups, with deployment nullifiers emitted inside and outside forks
InitContracts == InitFrom(TRUE, MaxContractCalls, {DeployedDb})

NextContracts ==
  \/ DoFork
  \/ DoMerge
  \/ DoReject
  \/ DoWriteDeploymentNullifier
  \/ DoGetContractInstance
  \/ DoGetBytecode

SpecContracts == InitContracts /\ [][NextContracts]_vars

\* Outbound side effects between the calls that fill the caches and the trees
InitOutbound == InitWith(TRUE, MaxOutboundCalls)

NextOutbound ==
  \/ DoFork
  \/ DoMerge
  \/ DoReject
  \/ DoWriteStorage
  \/ DoWriteSiloedNullifier
  \/ DoWriteL2ToL1Message
  \/ DoWritePublicLog

SpecOutbound == InitOutbound /\ [][NextOutbound]_vars

\* Storage, nullifier and fork calls together, reads included.
InitCalls == InitWith(TRUE, MaxMixedCalls)

NextCalls ==
  \/ DoFork
  \/ DoMerge
  \/ DoReject
  \/ DoWriteStorage
  \/ DoReadStorage
  \/ DoWriteSiloedNullifier
  \/ DoCheckNullifierExists

SpecCalls == InitCalls /\ [][NextCalls]_vars

\* Every read, check and write that traces a hint, called on one manager
NextHints ==
  \/ DoReadStorage
  \/ DoCheckNoteHashExists
  \/ DoCheckNullifierExists
  \/ DoCheckL1ToL2MessageExists
  \/ DoGetContractInstance
  \/ DoGetBytecode
  \/ DoWriteStorage
  \/ DoWriteUniqueNoteHash
  \/ DoWriteSiloedNullifier

SpecHints == InitFrom(TRUE, MaxHintCalls, {DeployedDb}) /\ [][NextHints]_vars

\* Storage writes and reads across forks
NextSlots ==
  \/ DoFork
  \/ DoMerge
  \/ DoReject
  \/ DoWriteStorage
  \/ DoReadStorage

SpecSlots == InitWith(TRUE, MaxSlotCalls) /\ [][NextSlots]_vars

\* Note hashes that differ from one another, appended inside and outside forks
DoAppendNoteHash ==
  \E m \in Managers, h \in AppendedNoteHashes : WriteUniqueNoteHash(m, h)

NextNoteHashes ==
  \/ DoFork
  \/ DoMerge
  \/ DoReject
  \/ DoAppendNoteHash

SpecNoteHashes == InitWith(TRUE, MaxNoteHashCalls) /\ [][NextNoteHashes]_vars

\* The nullifiers a transaction brings from private execution, written list by list
\* between single writes, inside and outside forks
DoWriteSiloedNullifiersFromPrivate ==
  \E m \in Managers, list \in PrivateNullifierLists :
    WriteSiloedNullifiersFromPrivate(m, list)

NextPrivate ==
  \/ DoFork
  \/ DoMerge
  \/ DoReject
  \/ DoWriteSiloedNullifiersFromPrivate
  \/ DoWriteSiloedNullifier

SpecPrivate == InitWith(TRUE, MaxPrivateCalls) /\ [][NextPrivate]_vars

\* Storage writes across forks, looked at without tracing
DoPeekStorage ==
  \E m \in Managers, a \in AztecAddresses, s \in StorageSlots : PeekStorage(m, a, s)

NextPeek ==
  \/ DoFork
  \/ DoMerge
  \/ DoReject
  \/ DoWriteStorage
  \/ DoPeekStorage

SpecPeek == InitWith(TRUE, MaxPeekCalls) /\ [][NextPeek]_vars

\* ------------------------------------------------------------- properties
ReturnedFrom(ops) == callCount > 0 /\ ret.op \in ops /\ ret.status = Ok

Resolutions == {"merge", "reject"}

\* slot k was written, by a call that took effect, in m or in a manager m was forked from
RECURSIVE WrittenInChain(_, _)
WrittenInChain(m, k) ==
  IF m = 0 THEN FALSE
  ELSE k \in DOMAIN history.lastWrite[m] \/ WrittenInChain(parent[m], k)

\* nullifier n was written, by a call that took effect, in m or in a manager m was forked from
RECURSIVE EffectiveInChain(_, _)
EffectiveInChain(m, n) ==
  IF m = 0 THEN FALSE
  ELSE n \in history.effective[m] \/ EffectiveInChain(parent[m], n)

\* C1: revert isolation for storage. After P.reject(fork), readStorage on P returns for
\* every slot the value it returned immediately before the fork was created, whatever
\* was written in the fork and in the forks nested in it.
RevertIsolation ==
  ReturnedFrom({"reject"}) =>
    \A k \in StorageKeys : ReadsOf(ret.m)[k] = history.readAtFork[ret.args[1]][k]

\* C2: write-then-read. After writeStorage(address, slot, value) readStorage on the same
\* manager returns value; after merge(fork) readStorage on the parent returns, for every
\* slot written in the fork, the value last written there.
WriteThenRead ==
  /\ ReturnedFrom({"writeStorage"}) =>
       LET r == ReadStorageResult(ret.m, ret.args[1], ret.args[2])
       IN r.status = Ok /\ r.value = ret.args[3]
  /\ ReturnedFrom({"merge"}) =>
       \A k \in DOMAIN history.lastWrite[ret.args[1]] :
         ReadsOf(ret.m)[k] = [status |-> Ok, value |-> history.lastWrite[ret.args[1]][k]]

\* C3: nullifier uniqueness. For a nullifier absent before the transaction, a
\* writeSiloedNullifier succeeds when no earlier write of it is in effect in the manager
\* called, and fails with NullifierCollisionError when one is, in either mode.
NullifierUniqueness ==
  [][\A n \in SiloedNullifiers :
       ( /\ callCount' # callCount
         /\ ret'.op = "writeSiloedNullifier" /\ ret'.args = <<n>>
         /\ ~HostNullifierExists(history.dbAtFork[1].nullifierTree, n) )
       => ret'.status = IF EffectiveInChain(ret'.m, n) THEN Collision ELSE Ok]_vars

\* C4: no double resolution. A resolved fork stays resolved, and a merge or reject of it,
\* from any manager, aborts with the fatal assertion error and changes nothing.
NoDoubleResolution ==
  [][\A c \in Forks :
       alreadyMergedIntoParent[c] =>
         /\ alreadyMergedIntoParent'[c]
         /\ (callCount' # callCount /\ ret'.op \in Resolutions /\ ret'.args = <<c>>) =>
              /\ ret'.status = Fatal
              /\ UNCHANGED <<publicStorage, nullifiers, trace, db, checkpoints, merkleTrees>>]_vars

DoubleResolutionAttempted ==
  /\ ret.op \in Resolutions /\ ret.status = Fatal
  /\ ret.m # parent[ret.args[1]]
  /\ alreadyMergedIntoParent[ret.args[1]]

\* C5: default value. readStorage returns 0 for a slot written neither in the manager,
\* nor in a manager it was forked from, nor in the persistent tree.
DefaultValue ==
  \A m \in Managers, k \in StorageKeys :
    ( /\ ~alreadyMergedIntoParent[m]
      /\ ~WrittenInChain(m, k)
      /\ ~GetPreviousValueIndex(db.publicDataTree,
                                ComputePublicDataTreeLeafSlot(k[1], k[2])).alreadyPresent )
    => ReadsOf(m)[k] = [status |-> Ok, value |-> 0]

\* C6: reject discards the fork's pending nullifiers. A nullifier first written inside a
\* fork that is rejected is not in the parent's Append Set Cache afterwards: the parent's
\* existence check returns false and a write of it in the parent succeeds.
RejectDiscardsNullifiers ==
  ReturnedFrom({"reject"}) =>
    \A n \in history.effective[ret.args[1]] :
      ( /\ ~EffectiveInChain(ret.m, n)
        /\ ~HostNullifierExists(history.dbAtFork[ret.args[1]].nullifierTree, n) )
      => /\ n \notin nullifiers[ret.m]
         /\ GetNullifierMembership(ret.m, n).status = Ok
         /\ ~GetNullifierMembership(ret.m, n).exists
         /\ WriteSiloedNullifierResult(ret.m, n).status = Ok

\* C7: in Merkle mode the persistent trees after reject(fork) are the trees of the moment
\* fork() created the fork, whatever the fork wrote to them.
RejectRestoresTrees ==
  (ReturnedFrom({"reject"}) /\ doMerkleOperations) => db = history.dbAtFork[ret.args[1]]

RejectedAllTreeWrites ==
  /\ ReturnedFrom({"reject"}) /\ doMerkleOperations
  /\ \A kind \in {"PublicStorageWrite", "NewNullifier", "NewNoteHash"} :
       \E i \in 1..Len(trace[ret.m]) : trace[ret.m][i].kind = kind /\ trace[ret.m][i].reverted
  /\ \E i \in 1..Len(trace[ret.m]) :
       /\ trace[ret.m][i].kind = "PublicStorageWrite"
       /\ trace[ret.m][i].reverted /\ trace[ret.m][i].hasInsertionPath

\* C8 as stated: for every order of fork, merge and reject calls that resolves no fork
\* twice, the checkpoint a merge or reject closes is the one opened by the fork() that
\* created the fork resolved.
ClosesOwnCheckpoint ==
  ReturnedFrom(Resolutions) => ret.value = ret.args[1]

\* C8 amended: the same, for the orders in which every fork is resolved while it is the
\* most recently created fork not yet resolved.
ClosesOwnCheckpointInOrder ==
  (ReturnedFrom(Resolutions) /\ history.inOrder) => ret.value = ret.args[1]

ResolvedNestedInOrder ==
  /\ ReturnedFrom(Resolutions) /\ history.inOrder
  /\ checkpoints # <<>>
  /\ \E c \in Forks : c # ret.args[1] /\ alreadyMergedIntoParent[c]

\* C9: when writeSiloedNullifier (called directly or by writeNullifier) fails with
\* NullifierCollisionError, the call has appended to the trace exactly one hint, the
\* nullifier check of that siloed nullifier with exists = true, and no new-nullifier hint.
CollisionAfterWitness ==
  [][(callCount' # callCount /\ ret'.status = Collision) =>
       LET m == ret'.m
           before == Len(trace[m])
       IN /\ ret'.op = "writeSiloedNullifier"
          /\ Len(trace'[m]) = before + 1
          /\ SubSeq(trace'[m], 1, before) = trace[m]
          /\ trace'[m][before + 1].kind = "NullifierCheck"
          /\ trace'[m][before + 1].nullifier = ret'.args[1]
          /\ trace'[m][before + 1].exists
          /\ \A k \in Managers \ {m} : trace'[k] = trace[k]]_vars

CollisionRaised ==
  /\ ret.op = "writeSiloedNullifier" /\ ret.status = Collision
  /\ ret.m \in Forks

\* C10: writeSiloedNullifier(n) fails with NullifierCollisionError whenever n exists before
\* the call, pending in the Append Set Cache of the manager or of one it was forked from,
\* or as a leaf of the persistent Nullifier tree, in either mode.
CollisionWhenExists ==
  [][\A n \in SiloedNullifiers :
       ( /\ callCount' # callCount
         /\ ret'.op = "writeSiloedNullifier" /\ ret'.args = <<n>>
         /\ NullifiersCheckExists(nullifiers, db.nullifierTree, ret'.m, n).exists )
       => ret'.status = Collision]_vars

\* the keys looked up: every leaf slot and siloed nullifier of the inputs and the keys between
ProbeKeys == 1..12

\* C11: low-leaf skip invariant. In every state reached by inserts, forks, merges and
\* rejects, a lookup in the PublicData or Nullifier tree that reports alreadyPresent = false
\* returns a preimage with preimage.key < k and (nextIndex = 0 or nextKey > k), so the
\* skip assertions of readStorage and getNullifierMembership hold.
LowLeafSkipInvariant ==
  \A tree \in {db.publicDataTree, db.nullifierTree}, k \in ProbeKeys :
    LET info == GetLeafOrLowLeafInfo(tree, k)
    IN info.ok /\ (~info.alreadyPresent => LowLeafSkips(info.preimage, k))

LowLeafIsInnerLeaf ==
  /\ Len(db.nullifierTree) >= 3 /\ Len(db.publicDataTree) >= 3
  /\ \E c \in Forks : alreadyMergedIntoParent[c]
  /\ \E k \in ProbeKeys :
       LET info == GetLeafOrLowLeafInfo(db.nullifierTree, k)
       IN ~info.alreadyPresent /\ info.leafIndex > 0 /\ info.preimage.nextIndex # 0

\* C12: starting from a tree that holds the sentinel leaf only, after the nullifiers 7, 3
\* and 10 are written in that order, the lookup of key 5 returns the leaf with key 3, with
\* alreadyPresent = false, whose nextKey is 7.
ScenarioWritten ==
  /\ callCount = 3 /\ Len(trace[1]) = 3
  /\ \A i \in 1..3 : trace[1][i].kind = "NewNullifier"
  /\ <<trace[1][1].nullifier, trace[1][2].nullifier, trace[1][3].nullifier>> = <<7, 3, 10>>

ScenarioLowLeaf ==
  ScenarioWritten =>
    LET info == GetLeafOrLowLeafInfo(db.nullifierTree, 5)
    IN /\ info.ok /\ ~info.alreadyPresent
       /\ info.preimage.key = 3 /\ info.preimage.nextKey = 7
       /\ db.nullifierTree[info.leafIndex + 1].key = 3

KeysDistinct(tree) == \A i, j \in 1..Len(tree) : tree[i].key = tree[j].key => i = j

\* C13: no duplicate leaf. In Merkle mode no indexed tree ever holds two leaves with the
\* same key; a writeStorage whose leaf slot is present updates the value of that leaf in
\* place and leaves the size of the tree unchanged, and a writeSiloedNullifier whose key
\* is present leaves the Nullifier tree as it is.
NoDuplicateLeaf ==
  [][ /\ KeysDistinct(db.publicDataTree) /\ KeysDistinct(db.nullifierTree)
      /\ KeysDistinct(db'.publicDataTree) /\ KeysDistinct(db'.nullifierTree)
      /\ (doMerkleOperations /\ callCount' # callCount /\ ret'.op = "writeStorage") =>
           LET found == GetPreviousValueIndex(db.publicDataTree,
                          ComputePublicDataTreeLeafSlot(ret'.args[1], ret'.args[2]))
           IN found.alreadyPresent =>
                db'.publicDataTree =
                  [db.publicDataTree EXCEPT ![found.index + 1].value = ret'.args[3]]
      /\ (doMerkleOperations /\ callCount' # callCount /\ ret'.op = "writeSiloedNullifier") =>
           (GetPreviousValueIndex(db.nullifierTree, ret'.args[1]).alreadyPresent
              => db'.nullifierTree = db.nullifierTree) ]_vars

UpdatedInPlace ==
  /\ doMerkleOperations /\ ReturnedFrom({"writeStorage"}) /\ ret.m \in Forks
  /\ ~trace[ret.m][Len(trace[ret.m])].hasInsertionPath
  /\ Len(db.publicDataTree) >= 3

\* the manager the execution engine is running: the innermost one, not aborted
IsRunning(m) == m = Current /\ ret.status # Fatal

\* C14: in Merkle mode, whenever the PublicData tree holds a leaf for the leaf slot of
\* (address, slot), the value of that leaf is the value resolved through the Value Cache
\* of the running manager, so that readStorage does not abort with a value mismatch.
ReadValueMatchesLeaf ==
  doMerkleOperations =>
    \A m \in Managers, k \in StorageKeys :
      IsRunning(m) =>
        LET info == GetLeafOrLowLeafInfo(db.publicDataTree,
                                         ComputePublicDataTreeLeafSlot(k[1], k[2]))
        IN /\ info.alreadyPresent =>
                info.preimage.value =
                  PublicStorageRead(publicStorage, db.publicDataTree, m, k[1], k[2]).value
           /\ ReadStorageResult(m, k[1], k[2]).status = Ok

\* C15: in Merkle mode the Append Set Cache of the running manager and the Nullifier
\* tree agree on the existence of every siloed nullifier: the existence reported by
\* nullifiers.checkExists equals the alreadyPresent flag of the tree lookup, and the
\* desynchronization assertion of getNullifierMembership does not fire.
CacheAgreesWithTree ==
  doMerkleOperations =>
    \A m \in Managers, n \in SiloedNullifiers :
      IsRunning(m) =>
        /\ NullifiersCheckExists(nullifiers, db.nullifierTree, m, n).exists =
             GetLeafOrLowLeafInfo(db.nullifierTree, n).alreadyPresent
        /\ GetNullifierMembership(m, n).status = Ok

\* The same call on the manager that differs only in Merkle mode being off: that manager
\* has made the same cache writes and merges, and has never touched the persistent trees.
MerkleOffReadStorage(m, address, slot) ==
  ReadStorageWith(FALSE, history.dbAtFork[1].publicDataTree, m, address, slot)

\* C16: readStorage returns the same value with Merkle mode on as with Merkle mode off:
\* every readStorage of a Merkle-mode manager completes and returns the value that the
\* manager with Merkle mode off returns after the same calls from the same persistent
\* state (whose trees no call changes).
ReadIndependentOfMerkleMode ==
  [][/\ ~doMerkleOperations => db' = history.dbAtFork[1]
     /\ (doMerkleOperations /\ ret'.op = "readStorage" /\ callCount' = callCount + 1)
          => /\ ret'.status = Ok
             /\ ret'.value = MerkleOffReadStorage(ret'.m, ret'.args[1], ret'.args[2]).value]_vars

\* C17: writeStorage raises no error when the slot already holds a value: a
\* writeStorage(a, s, v2) that follows a completed writeStorage(a, s, v1) of the same
\* manager with v1 different from v2 completes as well, in Merkle mode and with Merkle
\* mode off, and a readStorage(a, s) that follows it completes and returns v2.
OverwriteRaisesNoError ==
  [][\A m \in Managers, k \in StorageKeys, v1 \in StorageValues, v2 \in StorageValues :
       ( /\ v1 # v2
         /\ ReturnedFrom({"writeStorage"}) /\ ret.m = m /\ ret.args = <<k[1], k[2], v1>>
         /\ WriteStorage(m, k[1], k[2], v2) )
       => /\ ret'.status = Ok
          /\ ReadStorageResult(m, k[1], k[2])' =
               [ReadStorageResult(m, k[1], k[2])' EXCEPT !.status = Ok, !.value = v2]]_vars

ActiveForks == {c \in Forks : ~alreadyMergedIntoParent[c]}

\* C18: the number of open checkpoints on the persistent accessor equals the number of
\* forks that are still Active: fork opens exactly one checkpoint, a successful merge or
\* reject closes exactly one, and no other call opens or closes a checkpoint.
OpenCheckpointsMatchActiveForks ==
  [][/\ Len(checkpoints') = Cardinality(ActiveForks')
     /\ Len(checkpoints') - Len(checkpoints) =
          IF ret'.status # Ok \/ callCount' = callCount THEN 0
          ELSE IF ret'.op = "fork" THEN 1
          ELSE IF ret'.op \in Resolutions THEN 0 - 1
          ELSE 0]_vars

\* two forks have been resolved, the second by reject, while a third is still Active
CheckpointsOpenedAndClosed ==
  /\ ReturnedFrom({"reject"})
  /\ \E b \in Forks : b # ret.args[1] /\ alreadyMergedIntoParent[b]
  /\ ActiveForks # {}
  /\ Len(checkpoints) = Cardinality(ActiveForks)

\* C19: after merge(child) every siloed nullifier successfully written in the child is
\* reported as existing by the parent's checkNullifierExists, its leaf is (in Merkle
\* mode) in the persistent Nullifier tree, and a write of it in the parent fails with
\* NullifierCollisionError.
MergedNullifiersCollide ==
  ReturnedFrom({"merge"}) =>
    \A n \in history.effective[ret.args[1]] :
      /\ GetNullifierMembership(ret.m, n).status = Ok
      /\ GetNullifierMembership(ret.m, n).exists
      /\ doMerkleOperations => GetLeafOrLowLeafInfo(db.nullifierTree, n).alreadyPresent
      /\ WriteSiloedNullifierResult(ret.m, n).status = Collision

\* C20: reject is safe at any point between fork and resolution: whatever was executed
\* in an Active fork since fork() (nothing, reads, writes, or a writeSiloedNullifier that
\* failed with NullifierCollisionError), reject(fork) finds the checkpoint of a fork
\* open, completes without a fatal error and leaves the fork Resolved.
RejectIsSafe ==
  [][\A m \in Managers, c \in Forks :
       (~alreadyMergedIntoParent[c] /\ Reject(m, c))
       => /\ checkpoints # <<>>
          /\ ret'.status = Ok
          /\ alreadyMergedIntoParent'[c]]_vars

\* a fork in which a storage write took effect and a nullifier write failed with
\* NullifierCollisionError has been rejected
RejectedAfterCollision ==
  /\ ReturnedFrom({"reject"})
  /\ alreadyMergedIntoParent[ret.args[1]]
  /\ \E i \in 1..Len(trace[ret.args[1]]) :
       trace[ret.args[1]][i].kind = "NullifierCheck" /\ trace[ret.args[1]][i].exists
  /\ \E i \in 1..Len(trace[ret.args[1]]) : trace[ret.args[1]][i].kind = "PublicStorageWrite"

\* the value last written to slot k, by a call that took effect, in the nearest of m and
\* the managers m was forked from that wrote it
RECURSIVE LastWriteInChain(_, _)
LastWriteInChain(m, k) ==
  IF m = 0 THEN [written |-> FALSE, value |-> 0]
  ELSE IF k \in DOMAIN history.lastWrite[m]
       THEN [written |-> TRUE, value |-> history.lastWrite[m][k]]
       ELSE LastWriteInChain(parent[m], k)

\* C21: read fall-through. readStorage(address, slot) on a manager with no pending write
\* of the slot completes and returns the latest pending value of the nearest ancestor
\* that wrote the slot, and if no ancestor wrote it the value the persistent PublicData
\* tree stores under the leaf slot of (address, slot).
ReadFallsThrough ==
  [][\A m \in Managers, k \in StorageKeys :
       (ReadStorage(m, k[1], k[2]) /\ k \notin DOMAIN history.lastWrite[m])
       => /\ ret'.status = Ok
          /\ ret'.value =
               IF LastWriteInChain(parent[m], k).written
               THEN LastWriteInChain(parent[m], k).value
               ELSE StorageRead(db.publicDataTree, k[1], k[2])]_vars

LeafChecks == {"checkNoteHashExists", "checkL1ToL2MessageExists"}

\* the tree a leaf check reads
CheckedTree(op) ==
  IF op = "checkNoteHashExists" THEN db.noteHashTree ELSE db.l1ToL2MessageTree

ContractLookups == {"getContractInstance", "getBytecode"}

\* C23: for a non-canonical address with no instance in the contract store and no
\* deployment nullifier (none in the persistent Nullifier tree, none written by a call
\* that took effect in the manager or in one it was forked from), getContractInstance
\* and getBytecode return undefined without raising an error and trace exactly one
\* outcome, with exists = false.
MissingContractIsNoError ==
  [][(callCount' # callCount /\ ret'.op \in ContractLookups) =>
       LET m == ret'.m
           contractAddress == ret'.args[1]
           deploymentNullifier == SiloNullifier(DeployerContractAddress, contractAddress)
           before == Len(trace[m])
       IN ( /\ ~ContractAddressIsCanonical(contractAddress)
            /\ ~DbGetContractInstance(contractAddress).defined
            /\ ~EffectiveInChain(m, deploymentNullifier)
            /\ ~HostNullifierExists(history.dbAtFork[1].nullifierTree, deploymentNullifier) )
          => /\ ret'.status = Ok
             /\ ret'.value = 0 /\ ~ret'.exists
             /\ Len(trace'[m]) = before + 1
             /\ SubSeq(trace'[m], 1, before) = trace[m]
             /\ ~trace'[m][before + 1].exists]_vars

OutboundWrites == {"writeL2ToL1Message", "writePublicLog"}

\* C24: writeL2ToL1Message and writePublicLog are pure trace-appends: each appends
\* exactly one entry to the trace of the manager called and leaves the Value Cache, the
\* Append Set Cache, the persistent trees, the checkpoint stack and the traces of the
\* other managers unchanged, in Merkle mode and with Merkle mode off.
OutboundWritesOnlyTrace ==
  [][(callCount' # callCount /\ ret'.op \in OutboundWrites) =>
       LET m == ret'.m
           before == Len(trace[m])
       IN /\ ret'.status = Ok
          /\ Len(trace'[m]) = before + 1
          /\ SubSeq(trace'[m], 1, before) = trace[m]
          /\ trace'[m][before + 1].kind =
               IF ret'.op = "writePublicLog" THEN "PublicLog" ELSE "NewL2ToL1Message"
          /\ \A k \in Managers \ {m} : trace'[k] = trace[k]
          /\ publicStorage' = publicStorage
          /\ nullifiers' = nullifiers
          /\ db' = db
          /\ checkpoints' = checkpoints]_vars

\* a message was sent from a fork whose caches hold a pending write and a pending
\* nullifier, with the checkpoint of the fork open
MessageSentWithPendingState ==
  /\ ReturnedFrom({"writeL2ToL1Message"})
  /\ ret.m \in Forks
  /\ DOMAIN publicStorage[ret.m] # {}
  /\ nullifiers[ret.m] # {}
  /\ checkpoints # <<>>

\* C25: every state manager of the fork tree has the firstNullifier of the root state
\* manager, and no call (read, write, check, fork, merge, reject) changes the
\* firstNullifier of any state manager.
FirstNullifierShared ==
  [][/\ \A m \in Managers : firstNullifier'[m] = firstNullifier[m]
     /\ \A m \in DOMAIN firstNullifier' : firstNullifier'[m] = firstNullifier[1]
     /\ DOMAIN firstNullifier' = DOMAIN parent']_vars

\* a fork of a fork holds the firstNullifier of the root, and a fork has been resolved
NestedForksShareFirstNullifier ==
  /\ \E c \in Forks : parent[c] \in Forks /\ firstNullifier[c] = firstNullifier[1]
  /\ \E c \in Forks : alreadyMergedIntoParent[c]

\* C26: each successful merge(child) merges the trace of the child into the trace of
\* the parent exactly once with reverted = false, each successful reject(child) exactly
\* once with reverted = true: the parent's trace grows by the hints traced in the child,
\* in order, none dropped, marked reverted on reject and left as they are on merge.
TraceMergedOnce ==
  [][(callCount' # callCount /\ ret'.op \in Resolutions /\ ret'.status = Ok) =>
       LET m == ret'.m
           child == ret'.args[1]
           before == Len(trace[m])
           merged == SubSeq(trace'[m], before + 1, Len(trace'[m]))
       IN /\ Len(trace'[m]) = before + Len(trace[child])
          /\ SubSeq(trace'[m], 1, before) = trace[m]
          /\ \A i \in 1..Len(trace[child]) :
               /\ [merged[i] EXCEPT !.reverted = FALSE] =
                    [trace[child][i] EXCEPT !.reverted = FALSE]
               /\ merged[i].reverted = (trace[child][i].reverted \/ ret'.op = "reject")
          /\ \A k \in Managers \ {m} : trace'[k] = trace[k]]_vars

\* a fork that holds hints of its own and the reverted hints of a fork rejected into
\* it has been merged
MergedTraceWithRevertedHints ==
  /\ ReturnedFrom({"merge"})
  /\ \E i \in 1..Len(trace[ret.args[1]]) : trace[ret.args[1]][i].reverted
  /\ \E i \in 1..Len(trace[ret.args[1]]) : ~trace[ret.args[1]][i].reverted
  /\ Len(trace[ret.m]) >= Len(trace[ret.args[1]])

\* C27: a second merge or reject of an already-resolved fork aborts before it has any
\* effect: the Value Caches, the Append Set Caches and the traces, of the parent as of
\* every manager, and the checkpoint stack and the trees of the persistent accessor are
\* after the failed call what they were before it.
SecondResolutionHasNoEffect ==
  [][\A m \in Managers, c \in Forks :
       (alreadyMergedIntoParent[c] /\ (Merge(m, c) \/ Reject(m, c)))
       => /\ ret'.status = Fatal
          /\ publicStorage' = publicStorage
          /\ nullifiers' = nullifiers
          /\ trace' = trace
          /\ checkpoints' = checkpoints
          /\ db' = db]_vars

\* the parent of a resolved fork, holding the fork's write and hints, has tried to
\* resolve the fork again
SecondResolutionAborted ==
  /\ ret.op \in Resolutions /\ ret.status = Fatal
  /\ ret.m = parent[ret.args[1]]
  /\ DOMAIN publicStorage[ret.m] # {}
  /\ trace[ret.m] # <<>>

\* C28: when writeSiloedNullifier fails with NullifierCollisionError the call leaves the
\* Append Set Caches and the persistent trees unchanged (no entry added, no leaf
\* appended or changed) and opens or closes no checkpoint; only the trace of the manager
\* called grows, by one nullifier-check hint.
CollisionChangesOnlyTrace ==
  [][\A m \in Managers, n \in SiloedNullifiers :
       (WriteSiloedNullifier(m, n) /\ ret'.status = Collision)
       => /\ nullifiers' = nullifiers
          /\ db' = db
          /\ checkpoints' = checkpoints
          /\ publicStorage' = publicStorage
          /\ Len(trace'[m]) = Len(trace[m]) + 1
          /\ trace'[m][Len(trace'[m])].kind = "NullifierCheck"
          /\ \A k \in Managers \ {m} : trace'[k] = trace[k]]_vars

\* a manager has written a nullifier and its second write of it has failed
CollisionWithOwnNullifier ==
  /\ ret.op = "writeSiloedNullifier" /\ ret.status = Collision
  /\ ret.args[1] \in nullifiers[ret.m]
  /\ ret.args[1] \in history.effective[ret.m]

\* C29: in Merkle mode the hint traced by writeStorage carries an insertion path exactly
\* when the write created a new leaf. Then the traced new-leaf preimage has the leaf
\* slot as key, the written value, and the nextKey and nextIndex the low leaf had before
\* the splice: it is the leaf stored in the PublicData tree by the insert. When the leaf
\* slot was already present no insertion path is traced and the traced new-leaf
\* preimage is the low-leaf witness itself.
WriteHintMatchesInsertion ==
  [][\A m \in Managers, k \in StorageKeys, v \in StorageValues :
       (doMerkleOperations /\ WriteStorage(m, k[1], k[2], v) /\ ret'.status = Ok)
       => LET leafSlot == ComputePublicDataTreeLeafSlot(k[1], k[2])
              low == GetPreviousValueIndex(db.publicDataTree, leafSlot)
              lowLeaf == db.publicDataTree[low.index + 1]
              stored == db'.publicDataTree
              hint == trace'[m][Len(trace'[m])]
          IN /\ Len(trace'[m]) = Len(trace[m]) + 1
             /\ hint.kind = "PublicStorageWrite"
             /\ hint.hasInsertionPath = ~low.alreadyPresent
             /\ hint.hasInsertionPath = (Len(stored) = Len(db.publicDataTree) + 1)
             /\ hint.hasInsertionPath =>
                  /\ hint.newLeafPreimage =
                       [key |-> leafSlot, value |-> v,
                        nextKey |-> lowLeaf.nextKey, nextIndex |-> lowLeaf.nextIndex]
                  /\ hint.newLeafPreimage = stored[Len(stored)]
                  /\ hint.lowLeafPreimage = lowLeaf
             /\ ~hint.hasInsertionPath => hint.newLeafPreimage = hint.lowLeafPreimage]_vars

\* a write has spliced a new leaf in front of an existing one
NewLeafTracedWithSuccessor ==
  /\ ReturnedFrom({"writeStorage"}) /\ doMerkleOperations
  /\ trace[ret.m] # <<>>
  /\ LET hint == trace[ret.m][Len(trace[ret.m])]
     IN /\ hint.kind = "PublicStorageWrite" /\ hint.hasInsertionPath
        /\ hint.newLeafPreimage.nextKey # 0
        /\ hint.newLeafPreimage.value = ret.args[3]

\* the indices reached from a leaf by following nextIndex, at most steps leaves
RECURSIVE FollowNextIndex(_, _, _)
FollowNextIndex(tree, index, steps) ==
  IF steps = 0 \/ index >= Len(tree) THEN <<>>
  ELSE IF tree[index + 1].nextIndex = 0 THEN <<index>>
  ELSE <<index>> \o FollowNextIndex(tree, tree[index + 1].nextIndex, steps - 1)

SortedLinkedList(tree) ==
  LET visited == FollowNextIndex(tree, 0, Len(tree) + 1)
  IN /\ tree # <<>> /\ tree[1].key = 0
     /\ Len(visited) = Len(tree)
     /\ {visited[i] : i \in 1..Len(visited)} = 0..(Len(tree) - 1)
     /\ tree[visited[Len(visited)] + 1].nextIndex = 0
     /\ \A i \in 1..(Len(visited) - 1) :
          /\ tree[visited[i] + 1].key < tree[visited[i + 1] + 1].key
          /\ tree[visited[i] + 1].nextKey = tree[visited[i + 1] + 1].key

\* C30: sorted linked-list invariant of the indexed trees. In Merkle mode, after any
\* sequence of writeStorage and writeSiloedNullifier calls (and of forks resolved in
\* between), following nextIndex from the sentinel zero-key leaf visits every leaf of
\* the PublicData tree and of the Nullifier tree exactly once, in strictly increasing key
\* order, and ends at a leaf with nextIndex = 0; the nextKey of each leaf is the key of
\* the leaf at its nextIndex.
IndexedTreesSorted ==
  doMerkleOperations =>
    /\ SortedLinkedList(db.publicDataTree)
    /\ SortedLinkedList(db.nullifierTree)

\* both trees have taken a new leaf in front of the leaf they held
BothTreesSpliced ==
  /\ doMerkleOperations
  /\ Len(db.publicDataTree) > 2 /\ Len(db.nullifierTree) > 2
  /\ db.publicDataTree[1].nextIndex = 2
  /\ db.nullifierTree[1].nextIndex = 2

\* C31: a lookup always finds a leaf. In every state of the sentinel-seeded PublicData and
\* Nullifier trees and for every key k >= 0, getLeafOrLowLeafInfo returns a result, the
\* preimage returned is the leaf at the returned index, its key is the largest key <= k
\* held by the tree, and alreadyPresent is true exactly when that key equals k.
LookupKeys == 0..12

LargestKeyBelow(tree, k) ==
  CHOOSE key \in {tree[i].key : i \in 1..Len(tree)} :
    /\ key <= k
    /\ \A i \in 1..Len(tree) : tree[i].key <= k => tree[i].key <= key

LookupAlwaysFindsLeaf ==
  \A tree \in {db.publicDataTree, db.nullifierTree}, k \in LookupKeys :
    LET info == GetLeafOrLowLeafInfo(tree, k)
    IN /\ info.ok
       /\ info.leafIndex \in 0..(Len(tree) - 1)
       /\ info.preimage = tree[info.leafIndex + 1]
       /\ info.preimage.key = LargestKeyBelow(tree, k)
       /\ info.alreadyPresent <=> (info.preimage.key = k)

LookupsOfPresentAndAbsentKeys ==
  /\ Len(db.nullifierTree) >= 3
  /\ \E k \in LookupKeys :
       LET info == GetLeafOrLowLeafInfo(db.nullifierTree, k)
       IN info.alreadyPresent /\ info.leafIndex = Len(db.nullifierTree) - 1
  /\ \E k \in LookupKeys :
       LET info == GetLeafOrLowLeafInfo(db.nullifierTree, k)
       IN ~info.alreadyPresent /\ info.leafIndex > 0
  /\ GetLeafOrLowLeafInfo(db.nullifierTree, 0).alreadyPresent

\* the hint each traced call appends
HintKind ==
  [readStorage |-> "PublicStorageRead",
   checkNoteHashExists |-> "NoteHashCheck",
   checkNullifierExists |-> "NullifierCheck",
   checkL1ToL2MessageExists |-> "L1ToL2MessageCheck",
   getContractInstance |-> "GetContractInstance",
   getBytecode |-> "GetBytecode",
   writeStorage |-> "PublicStorageWrite",
   writeUniqueNoteHash |-> "NewNoteHash",
   writeSiloedNullifier |-> "NewNullifier"]

\* C32: every read or check that completes (readStorage, checkNoteHashExists,
\* checkNullifierExists, checkL1ToL2MessageExists, getContractInstance, getBytecode) and
\* every write that completes (writeStorage, writeUniqueNoteHash, writeSiloedNullifier)
\* appends exactly one hint, of its own kind, to the trace of the manager called, in
\* Merkle mode and with Merkle mode off, whether the value comes from the cache or from
\* the tree and whether or not the item exists.
OneHintPerCall ==
  [][(callCount' # callCount /\ ret'.op \in DOMAIN HintKind /\ ret'.status = Ok) =>
       LET m == ret'.m
           before == Len(trace[m])
       IN /\ Len(trace'[m]) = before + 1
          /\ SubSeq(trace'[m], 1, before) = trace[m]
          /\ trace'[m][before + 1].kind = HintKind[ret'.op]
          /\ \A k \in Managers \ {m} : trace'[k] = trace[k]]_vars

\* with Merkle mode off a slot was written, read back from the cache and a contract that
\* does not exist was looked up: three calls, three hints
CacheReadAndMissingContractTraced ==
  /\ ~doMerkleOperations
  /\ callCount = 3 /\ Len(trace[1]) = 3
  /\ trace[1][1].kind = "PublicStorageWrite"
  /\ trace[1][2].kind = "PublicStorageRead"
  /\ trace[1][2].slot = trace[1][1].slot /\ trace[1][2].value = 99
  /\ trace[1][3].kind = "GetContractInstance" /\ ~trace[1][3].exists

\* C33: with Merkle mode off no read, write or check modifies the persistent trees: after
\* any sequence of readStorage, writeStorage, writeUniqueNoteHash, writeSiloedNullifier,
\* the existence checks and the contract lookups, every tree (its leaves, so its size and
\* root) is the tree the manager was created on; the writes reach the caches and the
\* trace only.
PlainModeLeavesTreesAlone ==
  ~doMerkleOperations => db = DeployedDb

\* with Merkle mode off a slot, a note hash and a nullifier were written: the caches and
\* the trace hold them
PlainModeWritesDone ==
  /\ ~doMerkleOperations
  /\ callCount = 3
  /\ {trace[1][i].kind : i \in 1..Len(trace[1])} =
       {"PublicStorageWrite", "NewNoteHash", "NewNullifier"}
  /\ DOMAIN publicStorage[1] # {}
  /\ nullifiers[1] # {}

\* C34: getContractInstance and getBytecode cross-check the contract store against the
\* deployment nullifier in Merkle mode only: with Merkle mode off a lookup never aborts,
\* whether or not the store and the nullifier set agree on the existence of the contract.
CrossCheckOnlyInMerkleMode ==
  [][(callCount' # callCount /\ ret'.op \in ContractLookups /\ ~doMerkleOperations)
       => ret'.status = Ok]_vars

\* C35: for a canonical system address getContractInstance and getBytecode make no
\* nullifier membership lookup and never abort: the call returns the instance (the
\* bytecode) exactly when the contract store holds an instance for the address, whatever
\* the nullifier set says about its deployment nullifier, and the hint traced carries the
\* empty leaf preimage at index zero.
CanonicalBypassesCrossCheck ==
  [][(callCount' # callCount /\ ret'.op \in ContractLookups
        /\ ret'.args[1] \in CanonicalAddresses) =>
       LET m == ret'.m
           contractAddress == ret'.args[1]
           stored == DbGetContractInstance(contractAddress).defined
           before == Len(trace[m])
       IN /\ ret'.status = Ok
          /\ ret'.exists = stored
          /\ ret'.value = IF stored THEN contractAddress ELSE 0
          /\ Len(trace'[m]) = before + 1
          /\ SubSeq(trace'[m], 1, before) = trace[m]
          /\ trace'[m][before + 1].exists = stored
          /\ doMerkleOperations =>
               /\ trace'[m][before + 1].leafPreimage = SentinelLeaf
               /\ trace'[m][before + 1].leafIndex = 0]_vars

\* in Merkle mode a canonical address without instance in the store was looked up while
\* its deployment nullifier was in the Nullifier tree, and another with an instance in
\* the store had none
CanonicalLookupDespiteDisagreement ==
  /\ doMerkleOperations
  /\ ReturnedFrom(ContractLookups)
  /\ ret.args[1] = FeeJuiceAddress
  /\ ~ret.exists
  /\ GetPreviousValueIndex(db.nullifierTree,
                           SiloNullifier(DeployerContractAddress, FeeJuiceAddress)).alreadyPresent
  /\ DbGetContractInstance(DeployerContractAddress).defined
  /\ ~GetPreviousValueIndex(db.nullifierTree,
        SiloNullifier(DeployerContractAddress, DeployerContractAddress)).alreadyPresent

\* C36: writeStorage(a, s, v) changes what is read at (a, s) only: for every other
\* (address, slot) pair and every manager, readStorage has the same outcome and returns
\* the same value after the write as before it.
WriteChangesOneSlot ==
  [][(callCount' # callCount /\ ret'.op = "writeStorage") =>
         \A reader \in Managers, other \in StorageKeys \ {<<ret'.args[1], ret'.args[2]>>} :
           LET before == ReadStorageResult(reader, other[1], other[2])
               after == ReadStorageResult(reader, other[1], other[2])'
           IN after.status = before.status /\ after.value = before.value]_vars

\* in Merkle mode slot 2 was written in a fork, a leaf was inserted for it, and slot 1
\* still reads 42 from the tree
OtherSlotStillReadsLeaf ==
  /\ doMerkleOperations
  /\ ReturnedFrom({"writeStorage"})
  /\ ret.m \in Forks
  /\ ret.args = <<1, 2, 99>>
  /\ Len(db.publicDataTree) = 3
  /\ ReadStorageResult(ret.m, 1, 2) = [ReadStorageResult(ret.m, 1, 2) EXCEPT
                                         !.status = Ok, !.value = 99]
  /\ ReadStorageResult(ret.m, 1, 1) = [ReadStorageResult(ret.m, 1, 1) EXCEPT
                                         !.status = Ok, !.value = 42]

\* C37: in Merkle mode writeUniqueNoteHash traces as leaf index the size of the NoteHash
\* tree before the append; after the call the tree is the tree before with one more
\* leaf, the leaf at the traced index is the unique note hash, and a write that directly
\* follows another write is traced with the next leaf index.
NoteHashIndexIsSizeBefore ==
  [][(callCount' # callCount /\ ret'.op = "writeUniqueNoteHash" /\ doMerkleOperations) =>
       LET m == ret'.m
           sizeBefore == Len(db.noteHashTree)
           hint == trace'[m][Len(trace'[m])]
       IN /\ ret'.status = Ok
          /\ hint.kind = "NewNoteHash"
          /\ hint.noteHash = ret'.args[1]
          /\ hint.leafIndex = sizeBefore
          /\ Len(db'.noteHashTree) = sizeBefore + 1
          /\ SubSeq(db'.noteHashTree, 1, sizeBefore) = db.noteHashTree
          /\ db'.noteHashTree[hint.leafIndex + 1] = ret'.args[1]
          /\ (callCount > 0 /\ ret.op = "writeUniqueNoteHash") =>
               hint.leafIndex = trace[ret.m][Len(trace[ret.m])].leafIndex + 1]_vars

\* three different successive appends in Merkle mode, the last two in a fork: the root
\* traced index 0, the fork indices 1 and 2
ConsecutiveNoteHashIndices ==
  /\ doMerkleOperations
  /\ ReturnedFrom({"writeUniqueNoteHash"})
  /\ ret.m \in Forks
  /\ Len(db.noteHashTree) = 3
  /\ db.noteHashTree[2] # db.noteHashTree[3]
  /\ Len(trace[1]) = 1 /\ trace[1][1].leafIndex = 0
  /\ Len(trace[ret.m]) = 2
  /\ trace[ret.m][1].leafIndex = 1 /\ trace[ret.m][2].leafIndex = 2

\* the write of one nullifier and the write inside the list loop are the same write
SameWrite ==
  \A m \in Managers, n \in PrivateNullifiers \ {0} :
    WriteSiloedNullifierOn(nullifiers, db.nullifierTree, m, n) =
      WriteSiloedNullifierResult(m, n)

\* the keys of the leaves of an indexed tree
LeafKeys(tree) == {tree[i].key : i \in 1..Len(tree)}

PeekReadsWithoutTrace ==
  [][(callCount' # callCount /\ ret'.op = "peekStorage") =>
       LET read == ReadStorageResult(ret'.m, ret'.args[1], ret'.args[2])
       IN /\ ret'.status = Ok
          /\ read.status = Ok => ret'.value = read.value
          /\ trace' = trace
          /\ publicStorage' = publicStorage
          /\ nullifiers' = nullifiers
          /\ db' = db
          /\ checkpoints' = checkpoints]_vars

\* a fork that has written nothing and traced nothing peeked at a slot and got the value
\* pending in the manager it was forked from, which readStorage returns there too
PeekedAtParentWrite ==
  /\ ReturnedFrom({"peekStorage"})
  /\ ret.m \in Forks
  /\ DOMAIN publicStorage[ret.m] = {}
  /\ trace[ret.m] = <<>>
  /\ ret.value = 99
  /\ ReadStorageResult(ret.m, ret.args[1], ret.args[2]) =
       [ReadStorageResult(ret.m, ret.args[1], ret.args[2]) EXCEPT
          !.status = Ok, !.value = 99]

====
